---- MODULE Spec2Model ----
(***************************************************************************)
(* Verification model of the basicmac device simulator (unicorn/simul and  *)
(* unicorn/nsimul): the runtime scheduler, the LoRa medium with its        *)
(* transmitter and receiver, the universal gateway and the LNS session     *)
(* handling of the test harness.                                           *)
(***************************************************************************)
EXTENDS Integers, Sequences, FiniteSets, TLC

\* ------------------------------------------------------------------------
\* Bounds of the model
MaxJobs  == 4       \* Job objects created in one run of the scheduler model
MaxTicks == 2       \* largest clock value / ticks argument

None == 0 - 1       \* stands for Python's None in Optional[int] fields

VARIABLES
    job,        \* the Job objects created so far: job[i] = [ticks, cancelled, fn, own]
    jobs,       \* Runtime.jobs: the heapq list, holding indices into job
    handle,     \* Runtime.handle: None, or the ticks of the host timer it refers to
    timers,     \* the host loop's live timers that call Runtime.step, as their ticks
    stepping,   \* Runtime.stepping
    clk,        \* the value clock.ticks() returns
    now,        \* the local `now` of the running step()
    ran,        \* history: the jobs whose run() was called, in order
    lastrun     \* history: the last job run and the jobs that were waiting then

rtVars == <<job, jobs, handle, timers, stepping, clk, now, ran, lastrun>>

\* LNS and test harness (unicorn/nsimul/lorawan.py, unicorn/simul/devtest.py)
VARIABLES
    sess,       \* the Session dicts created so far (a Session is referred to by its index)
    sm,         \* the SessionManagers: sm.dt is DeviceTest.sm, sm.lns is LNS().sm
    dtsession,  \* DeviceTest.session: None or a Session
    lnsop,      \* history: the last LNS / DeviceTest call, its arguments and its result
    accnonce    \* history: per DevEUI, the largest DevNonce of an accepted Join (None if none)

lnsVars == <<sess, sm, dtsession, lnsop, accnonce>>

\* Virtual-time event loop (unicorn/nsimul/vtimeloop.py). A TimerHandle is
\* referred to by its index; times are whole numbers of clock units.
VARIABLES
    vth,        \* the TimerHandle objects created so far: vth[i] = [when, cancelled]
    vtasks,     \* VirtualTimeLoop._tasks: the heapq list, holding indices into vth
    vtime,      \* VirtualTimeLoop._time
    vtop        \* history: the last call of the loop, the handle it concerned and the time before

vtVars == <<vth, vtasks, vtime, vtop>>

\* Peripheral table of the Simulation and the host side of two peripherals
\* (unicorn/simul/device.py, peripherals.py). A peripheral is referred to by
\* the pid it is registered under.
VARIABLES
    periph,     \* Simulation.peripherals: pid -> the class of the peripheral
    pages,      \* the pids whose register page is mapped into the emulator
    hooks,      \* Simulation.prerunhooks, as the pids of the Timers hooked
    uart,       \* the FastUART: its event, the recv() suspended, its tx buffer
    gpio,       \* the GPIO: its registers and its external interface
    pop         \* history: the last call on the table or on a peripheral

perVars == <<periph, pages, hooks, uart, gpio, pop>>

\* Medium, radio and gateway (unicorn/simul/medium.py, peripherals.py,
\* unicorn/nsimul/lorawan.py). A transmitter is referred to by its owner:
\* 0 is the gateway, g >= 1 the Radio created after the g-th reset. A
\* listener likewise: 0 is the gateway, g >= 1 the receiver of Radio g.
VARIABLES
    msgs,       \* the LoraMsg objects created so far (a LoraMsg is referred to by its index)
    pmsg,       \* SimpleMedium.pmsg
    listeners,  \* SimpleMedium.listeners
    xm,         \* LoraMsgTransmitter.msg of each transmitter
    xgrp,       \* LoraMsgTransmitter.jobs of each transmitter
    rx,         \* the fields of each LoraMsgReceiver
    rgrp,       \* LoraMsgReceiver.jobs of each receiver
    upframes,   \* UniversalGateway.upframes
    drv,        \* per Radio: "idle", or the operation the firmware's driver waits for
    epoch,      \* Timer.epoch of the clock the Runtime uses
    fault,      \* the exception a job has raised out of Runtime.step ("" if none)
    rxn,        \* history: per Radio, the number of receive() calls
    trace       \* history: the calls and callbacks made so far, in order

medVars == <<msgs, pmsg, listeners, xm, xgrp, rx, rgrp, upframes, drv, epoch, fault,
             rxn, trace>>

\* Emulator core and NVIC (unicorn/simul/device.py, peripherals.py). Guest
\* code addresses are small integers; the guest stack holds the words
\* stack_push has written, above the interrupted code's own data.
VARIABLES
    pc,         \* Simulation.pc: where emulation is to continue
    lr,         \* the guest's LR register
    gstack,     \* the guest stack, top last
    reqs,       \* NVIC.reqs
    cprio,      \* NVIC.cprio
    nvic,       \* TRUE when Simulation.irqhandler is the NVIC, FALSE when the dummy
    running,    \* Simulation.running (asyncio.Event)
    ex,         \* Simulation.ex ("" for None)
    dloop,      \* where Simulation.run is: "wait", "emu" or "raised"
    blocked,    \* the driver task is suspended in running.wait()
    epc,        \* the address the guest is executing at (while dloop = "emu")
    frames,     \* history: per interrupt being handled, the pc and cprio at its dispatch
    iret,       \* history: the last irq_return, the pc it set and the one interrupted
    gop         \* history: the last step of the driver loop or of the guest

\* all of them but the interrupt line a Radio callback raises
emuRest == <<pc, lr, gstack, cprio, nvic, ex, dloop, blocked, epc, frames, iret, gop>>

emuVars == <<reqs, running, emuRest>>

\* ------------------------------------------------------------------------
\* Job.__lt__: jobs compare by _ticks only
JobLt(J, a, b) == J[a].ticks < J[b].ticks

\* heapq._siftdown(heap, startpos, pos) with newitem = the item being placed;
\* positions are Python's (0-based), heap[p+1] is Python's heap[p]
RECURSIVE SiftDown(_, _, _, _, _)
SiftDown(J, heap, startpos, pos, newitem) ==
    IF pos > startpos
    THEN LET parentpos == (pos - 1) \div 2
             parent    == heap[parentpos + 1]
         IN  IF JobLt(J, newitem, parent)
             THEN SiftDown(J, [heap EXCEPT ![pos + 1] = parent], startpos, parentpos, newitem)
             ELSE [heap EXCEPT ![pos + 1] = newitem]
    ELSE [heap EXCEPT ![pos + 1] = newitem]

\* heapq._siftup(heap, pos): bubble the smaller child up until a leaf is hit,
\* then sift the displaced item down from there
RECURSIVE SiftUpLoop(_, _, _, _, _)
SiftUpLoop(J, heap, startpos, pos, newitem) ==
    LET endpos   == Len(heap)
        childpos == 2 * pos + 1
    IN  IF childpos < endpos
        THEN LET rightpos == childpos + 1
                 c == IF rightpos < endpos
                         /\ ~JobLt(J, heap[childpos + 1], heap[rightpos + 1])
                      THEN rightpos ELSE childpos
             IN  SiftUpLoop(J, [heap EXCEPT ![pos + 1] = heap[c + 1]], startpos, c, newitem)
        ELSE SiftDown(J, [heap EXCEPT ![pos + 1] = newitem], startpos, pos, newitem)

\* heapq.heappush(heap, item)
HeapPush(J, heap, item) ==
    LET h == Append(heap, item)
    IN  SiftDown(J, h, 0, Len(h) - 1, item)

\* heapq.heappop(heap): the heap that remains (the item returned is heap[1])
HeapPop(J, heap) ==
    LET lastelt == heap[Len(heap)]
        rest    == SubSeq(heap, 1, Len(heap) - 1)
    IN  IF rest = <<>> THEN rest
        ELSE SiftUpLoop(J, [rest EXCEPT ![1] = lastelt], 0, 0, lastelt)

\* ------------------------------------------------------------------------
\* Runtime, as a record R = [job, jobs, handle, stepping] so that handlers
\* can chain the calls they make
RT == [job |-> job, jobs |-> jobs, handle |-> handle, timers |-> timers,
       stepping |-> stepping]

\* Runtime.prune: drop cancelled jobs from the head of the heap
RECURSIVE Prune(_, _)
Prune(J, heap) ==
    IF heap # <<>> /\ J[heap[1]].cancelled
    THEN Prune(J, HeapPop(J, heap))
    ELSE heap

\* TimerHandle.cancel of the timer armed for ticks t: it leaves the host
\* loop if it is still live there (cancelling a timer that has fired does nothing)
RECURSIVE TimerCancel(_, _)
TimerCancel(T, t) ==
    IF T = <<>> THEN T
    ELSE IF T[1] = t THEN Tail(T)
    ELSE <<T[1]>> \o TimerCancel(Tail(T), t)

\* Runtime.rewind
Rewind(R) ==
    IF R.stepping THEN R
    ELSE LET pruned == Prune(R.job, R.jobs)
             live   == IF R.handle # None THEN TimerCancel(R.timers, R.handle) ELSE R.timers
         IN  [R EXCEPT !.jobs = pruned,
                       !.handle = IF pruned # <<>> THEN R.job[pruned[1]].ticks ELSE None,
                       !.timers = IF pruned # <<>> THEN Append(live, R.job[pruned[1]].ticks)
                                  ELSE live]

\* Runtime.schedule(t, job) for a new Job running fn of object own; Job._prepare
\* sets _ticks and clears _cancelled
RtSchedule(R, t, fn, own) ==
    LET id == Len(R.job) + 1
        J  == Append(R.job, [ticks |-> t, cancelled |-> FALSE, fn |-> fn, own |-> own])
    IN  Rewind([R EXCEPT !.job = J, !.jobs = HeapPush(J, R.jobs, id)])

\* Runtime.reset: the scheduler is re-initialized, no job stays scheduled and
\* no host timer stays armed
RuntimeReset(R) == [R EXCEPT !.jobs = <<>>, !.handle = None, !.timers = <<>>]

\* Job.cancel
JobCancel(R, id) == [R EXCEPT !.job[id].cancelled = TRUE]

SetRT(R) ==
    /\ job' = R.job
    /\ jobs' = R.jobs
    /\ handle' = R.handle
    /\ timers' = R.timers
    /\ stepping' = R.stepping

\* ------------------------------------------------------------------------
\* Python dicts, as the sequence of their [k, v] items in insertion order
DictHas(d, k) == \E i \in 1..Len(d) : d[i].k = k
DictPos(d, k) == CHOOSE i \in 1..Len(d) : d[i].k = k
DictGet(d, k) == d[DictPos(d, k)].v
DictSet(d, k, v) ==
    IF DictHas(d, k) THEN [d EXCEPT ![DictPos(d, k)].v = v]
    ELSE Append(d, [k |-> k, v |-> v])
DictPop(d, k) ==
    LET p == DictPos(d, k)
    IN  SubSeq(d, 1, p - 1) \o SubSeq(d, p + 1, Len(d))
DictValues(d) == [i \in 1..Len(d) |-> d[i].v]

\* ------------------------------------------------------------------------
\* Bounds of the LNS model
MaxSess   == 2      \* Session dicts created in one run
MaxFCnt   == 1      \* largest FCnt of an uplink frame
MaxFCntDn == 2      \* largest fcntdn a session reaches
MaxNonce  == 1      \* largest DevNonce of a Join-Request
MaxAdj    == 2      \* largest fcntdn_adj (and its negative)

DevEuis  == {1, 2}
DevAddrs == {1, 2}
NwkKeys  == {1, 2}              \* 1 stands for the default b'@ABCDEFGHIJKLMNO'
DefaultNwkKey == 1
DefaultPDevNonce == -1          \* LNS.join: pdevnonce:int=-1

\* numpy.int32(crc32(struct.pack('q', deveui))): the default DevAddr of a DevEUI
Crc32Addr(deveui) == <<2, 1>>[deveui]

\* lc.crypto.derive(nwkkey, devnonce, appnonce, netid, kind) with the default
\* appnonce and netid: the session keys are a function of NwkKey and DevNonce
DeriveKey(nwkkey, devnonce) == <<nwkkey, devnonce>>

\* A Join-Request PDU: DevEUI, DevNonce and the key its MIC was computed with
JReqPdus == [DevEUI : DevEuis, DevNonce : 0..MaxNonce, mickey : NwkKeys]

\* An uplink data frame: DevAddr, FCnt and the session key its MIC was computed with
UpPdus == [DevAddr : DevAddrs, FCnt : 0..MaxFCnt,
           mickey : {DeriveKey(DefaultNwkKey, n) : n \in 0..MaxNonce} \cup {DeriveKey(2, 0)}]

\* lm.unpack_dataframe(pdu, fcntup, nwkskey, appskey): VerifyError unless the
\* MIC verifies under nwkskey, else the decoded frame
UnpackDataframe(pdu, fcntup, nwkskey) ==
    IF pdu.mickey = nwkskey
    THEN [ok |-> TRUE, DevAddr |-> pdu.DevAddr, FCnt |-> pdu.FCnt]
    ELSE [ok |-> FALSE, DevAddr |-> None, FCnt |-> None]

\* SessionManager.add
SmAdd(M, S, s) ==
    LET devaddr == S[s].devaddr
        deveui  == S[s].deveui
        a == IF DictHas(M.addr2sess, devaddr) THEN DictGet(M.addr2sess, devaddr) ELSE <<>>
        e == IF DictHas(M.eui2sess, deveui) THEN DictGet(M.eui2sess, deveui) ELSE <<>>
    IN  [addr2sess |-> DictSet(M.addr2sess, devaddr, DictSet(a, deveui, s)),
         eui2sess  |-> DictSet(M.eui2sess, deveui, DictSet(e, devaddr, s))]

\* SessionManager._remove
SmRemoveKey(outer, k1, k2) ==
    IF DictHas(outer, k1)
    THEN LET inner == DictGet(outer, k1)
         IN  IF DictHas(inner, k2)
             THEN IF DictPop(inner, k2) = <<>>
                  THEN DictPop(outer, k1)
                  ELSE DictSet(outer, k1, DictPop(inner, k2))
             ELSE outer
    ELSE outer

\* a remove that forgets the index by DevEUI
SmRemoveAddrOnly(M, S, s) ==
    [addr2sess |-> SmRemoveKey(M.addr2sess, S[s].devaddr, S[s].deveui),
     eui2sess  |-> M.eui2sess]

\* SessionManager.remove
SmRemove(M, S, s) ==
    [addr2sess |-> SmRemoveKey(M.addr2sess, S[s].devaddr, S[s].deveui),
     eui2sess  |-> SmRemoveKey(M.eui2sess, S[s].deveui, S[s].devaddr)]

\* SessionManager.get_by_addr
SmGetByAddr(M, devaddr) ==
    IF DictHas(M.addr2sess, devaddr) THEN DictValues(DictGet(M.addr2sess, devaddr)) ELSE <<>>

\* SessionManager.all
RECURSIVE SmAllOf(_)
SmAllOf(outer) ==
    IF outer = <<>> THEN <<>> ELSE DictValues(outer[1].v) \o SmAllOf(Tail(outer))
SmAll(M) == SmAllOf(M.addr2sess)

\* LNS.join: the outcome of a Join-Request; res is "ok" or the exception raised
LnsJoin(pdu, pdevnonce, nwkkey, devaddr, rxdly) ==
    LET deveui   == pdu.DevEUI
        addr     == IF devaddr = None THEN Crc32Addr(deveui) ELSE devaddr
        devnonce == pdu.DevNonce
        skey     == DeriveKey(nwkkey, devnonce)
    IN  IF pdu.mickey # nwkkey THEN [res |-> "VerifyError"]
        ELSE IF pdevnonce >= devnonce THEN [res |-> "DevNonce is not strictly increasing"]
        ELSE [res |-> "ok",
              session |-> [deveui   |-> deveui,
                           devaddr  |-> addr,
                           nwkkey   |-> nwkkey,
                           nwkskey  |-> skey,
                           appskey  |-> skey,
                           fcntup   |-> 0,
                           fcntdn   |-> 0,
                           rx1delay |-> IF rxdly > 1 THEN rxdly ELSE 1,
                           devnonce |-> devnonce]]

\* variant: fcntup is assigned without the DevAddr assertion
LnsUnpackNoAssert(session, pdu) ==
    LET updf == UnpackDataframe(pdu, session.fcntup, session.nwkskey)
    IN  IF ~updf.ok THEN [res |-> "VerifyError", session |-> session]
        ELSE [res |-> "ok", session |-> [session EXCEPT !.fcntup = updf.FCnt]]

\* LNS.unpack: the outcome for a session and a PDU, and the session afterwards
LnsUnpack(session, pdu) ==
    LET updf == UnpackDataframe(pdu, session.fcntup, session.nwkskey)
    IN  IF ~updf.ok THEN [res |-> "VerifyError", session |-> session]
        ELSE IF session.devaddr # updf.DevAddr
             THEN [res |-> "AssertionError", session |-> session]
        ELSE [res |-> "ok", session |-> [session EXCEPT !.fcntup = updf.FCnt]]

\* LNS.try_unpack: the first session of get_by_addr(devaddr) that verifies the
\* PDU (0 if none does: VerifyError)
RECURSIVE TryUnpackFrom(_, _, _)
TryUnpackFrom(S, cands, pdu) ==
    IF cands = <<>> THEN 0
    ELSE IF UnpackDataframe(pdu, S[Head(cands)].fcntup, S[Head(cands)].nwkskey).ok
         THEN Head(cands)
         ELSE TryUnpackFrom(S, Tail(cands), pdu)

\* LNS.dl and DeviceTest.dndf share this: the FCnt packed into the frame and
\* the session afterwards
DlFrame(session, adj, invalidmic) ==
    [DevAddr    |-> session.devaddr,
     FCnt       |-> session.fcntdn + adj,
     mickey     |-> session.nwkskey,
     invalidmic |-> invalidmic]

\* variant: fcntdn is advanced whatever the sign of fcntdn_adj
LnsDlAlways(session, adj) ==
    [session EXCEPT !.fcntdn = session.fcntdn + (1 + adj)]

\* LNS.dl lines 240-241 (DeviceTest.dndf lines 181-182): the session afterwards
LnsDl(session, adj) ==
    IF adj >= 0 THEN [session EXCEPT !.fcntdn = session.fcntdn + (1 + adj)]
    ELSE session

\* ------------------------------------------------------------------------
\* Time. One unit of time is 1/512 microsecond, so that a clock tick of
\* 1/32768 s and the symbol times are whole numbers of units.
TICKS_PER_SEC == 32768
UnitsPerSec   == 512 * 1000000
UnitsPerTick  == UnitsPerSec \div TICKS_PER_SEC

\* int(x) of Python for the quotient a / b: truncation towards zero
TruncDiv(a, b) == IF a >= 0 THEN a \div b ELSE 0 - ((0 - a) \div b)

\* math.ceil(a / b) for b > 0
CeilDiv(a, b) == 0 - ((0 - a) \div b)

\* Timer.ticks2time and Timer.time2ticks
Ticks2Time(ep, ticks) == ep + ticks * UnitsPerTick
Time2Ticks(ep, time)  == TruncDiv(time - ep, UnitsPerTick)

Max(a, b) == IF a >= b THEN a ELSE b

RECURSIVE Pow2(_)
Pow2(n) == IF n = 0 THEN 1 ELSE 2 * Pow2(n - 1)

\* ------------------------------------------------------------------------
\* Rps
IQINV == Pow2(16)

BwIndex(bw) == CASE bw = 125000 -> 0 [] bw = 250000 -> 1 [] bw = 500000 -> 2

MakeRps(sf, bw, cr, crc, ih, iqinv) ==
    IF sf # 0
    THEN (sf - 6) + BwIndex(bw) * 8 + (cr - 1) * 32 + (1 - crc) * 128
         + (ih % 256) * 256 + (IF iqinv THEN IQINV ELSE 0)
    ELSE 0

GetSf(rps)  == IF rps % 8 # 0 THEN (rps % 8) + 6 ELSE 0
GetBw(rps)  == Pow2((rps \div 8) % 4) * 125000
GetCr(rps)  == ((rps \div 32) % 4) + 1
\* bit 7 as it is stored
GetCrcRaw(rps) == (rps \div 128) % 2

GetCrc(rps) == 1 - ((rps \div 128) % 2)
GetIh(rps)  == (rps \div 256) % 256
IsFSK(rps)  == rps % 8 = 0
IsIqInv(rps) == (rps \div IQINV) % 2 = 1
GetSfBw(rps) == <<GetSf(rps), IF GetSf(rps) # 0 THEN GetBw(rps) ELSE 0>>

\* Rps.validate: the exception it raises ("" if none)
Validate(rps) ==
    IF GetSf(rps) # 0
    THEN IF /\ GetBw(rps) \in {125000, 250000, 500000}
            /\ GetSf(rps) >= 7 /\ GetSf(rps) <= 12
            /\ GetCr(rps) >= 1 /\ GetCr(rps) <= 4
            /\ (GetIh(rps) = 0 \/ GetIh(rps) = 1)
            /\ (GetCrc(rps) = 0 \/ GetCrc(rps) = 1)
         THEN "" ELSE "AssertionError"
    ELSE ""

\* ------------------------------------------------------------------------
\* LoraMsg
\* LoraMsg.symtime: the time of nsym symbols
SymTime(rps, nsym) ==
    IF GetSf(rps) = 0 THEN nsym * (8 * (UnitsPerSec \div 50000))
    ELSE nsym * ((UnitsPerSec \div GetBw(rps)) * Pow2(GetSf(rps)))

\* the default of dro in LoraMsg.__init__
DefaultDro(rps) ==
    IF GetSf(rps) # 0
    THEN IF (GetSf(rps) >= 11 /\ GetBw(rps) = 125000) \/ (GetSf(rps) = 12 /\ GetBw(rps) = 250000)
         THEN 1 ELSE 0
    ELSE 0

\* LoraMsg.airtimes for a PDU of len bytes
AirTimes(rps, len, npreamble, dro) ==
    LET Ts == SymTime(rps, 1)
    IN  IF IsFSK(rps) THEN <<8 * Ts, (3 + 1 + 2 + len) * Ts>>
        ELSE LET sf  == GetSf(rps)
                 tmp == CeilDiv(8 * len - 4 * sf + 28 + 16 * GetCrc(rps) - GetIh(rps) * 20,
                                4 * sf - dro * 8) * (GetCr(rps) + 4)
             IN  <<((4 * npreamble + 17) * Ts) \div 4, (8 + Max(0, tmp)) * Ts>>

\* LoraMsg.__init__
NewLoraMsg(time, len, freq, rps, xpow, npreamble, src) ==
    LET at == AirTimes(rps, len, npreamble, DefaultDro(rps))
    IN  [len |-> len, freq |-> freq, rps |-> rps, xpow |-> xpow, rssi |-> None,
         snr |-> None, dro |-> DefaultDro(rps), npreamble |-> npreamble, src |-> src,
         xbeg |-> time, xpld |-> time + at[1], xend |-> time + at[1] + at[2]]

\* LoraMsg.airtimes of unicorn/nsimul/medium.py
AirTimesN(rps, len, npreamble, dro) ==
    LET Ts == SymTime(rps, 1)
    IN  IF IsFSK(rps) THEN <<5 * Ts, (3 + 1 + 2 + len) * Ts>>
        ELSE AirTimes(rps, len, npreamble, dro)

\* LoraMsg.__init__ of either module, with dro as the caller passes it (None
\* when it is left out): the times of the message, or the exception raised
LoraMsgInit(impl, time, len, rps, npreamble, droarg) ==
    LET dro == IF GetSf(rps) # 0
               THEN IF droarg = None THEN DefaultDro(rps) ELSE droarg
               ELSE 0
        at  == IF impl = "nsimul" THEN AirTimesN(rps, len, npreamble, dro)
               ELSE AirTimes(rps, len, npreamble, dro)
    IN  IF len > 255 \/ Validate(rps) # ""
           \/ (GetSf(rps) # 0 /\ droarg # None /\ droarg # 0 /\ droarg # 1)
        THEN [exc |-> "AssertionError"]
        ELSE [exc |-> "", dro |-> dro,
              xbeg |-> time, xpld |-> time + at[1], xend |-> time + at[1] + at[2]]

\* ------------------------------------------------------------------------
\* JobGroup: the named-job overlay of the Runtime
JgNew == [job2name |-> <<>>, name2job |-> <<>>]

\* _add ("" stands for the name None; the assertion is checked by the caller)
JgAdd(G, j, name) ==
    [job2name |-> DictSet(G.job2name, j, name),
     name2job |-> IF name # "" THEN DictSet(G.name2job, name, j) ELSE G.name2job]

\* _remove that forgets the job and keeps its tag
JgRemoveJobOnly(G, j) ==
    [job2name |-> DictPop(G.job2name, j), name2job |-> G.name2job]

\* _remove
JgRemove(G, j) ==
    LET name == DictGet(G.job2name, j)
    IN  [job2name |-> DictPop(G.job2name, j),
         name2job |-> IF name # "" THEN DictPop(G.name2job, name) ELSE G.name2job]

\* the set of all orders in which a Python set may be iterated
Orders(S) ==
    {f \in [1..Cardinality(S) -> S] : \A i, k \in 1..Cardinality(S) : f[i] = f[k] => i = k}

\* ------------------------------------------------------------------------
\* The objects a handler works on, as one record W so that handlers can
\* chain the calls they make. W.exc is the exception raised so far ("" if
\* none): every call below does nothing once an exception is raised.
World ==
    [job |-> job, jobs |-> jobs, handle |-> handle, timers |-> timers, stepping |-> stepping,
     msgs |-> msgs, pmsg |-> pmsg, listeners |-> listeners, xm |-> xm, xgrp |-> xgrp,
     rx |-> rx, rgrp |-> rgrp, upframes |-> upframes, drv |-> drv, epoch |-> epoch,
     rxn |-> rxn, trace |-> trace, reqs |-> reqs, running |-> running, exc |-> ""]

Log(W, ev) == [W EXCEPT !.trace = Append(@, ev)]

\* JobGroup.schedule of a transmitter's group
XSchedule(W, o, t, fn) ==
    IF W.exc # "" THEN W
    ELSE LET id == Len(W.job) + 1
         IN  RtSchedule([W EXCEPT !.xgrp[o] = JgAdd(@, id, "")],
                        Time2Ticks(W.epoch, t), fn, o)

\* JobGroup.schedule of a receiver's group
RSchedule(W, g, name, t, fn) ==
    IF W.exc # "" THEN W
    ELSE IF name # "" /\ DictHas(W.rgrp[g].name2job, name)
         THEN [W EXCEPT !.exc = "AssertionError"]
    ELSE LET id == Len(W.job) + 1
         IN  RtSchedule([W EXCEPT !.rgrp[g] = JgAdd(@, id, name)],
                        Time2Ticks(W.epoch, t), fn, g)

\* JobGroup.cancel of a receiver's group
RCancel(W, g, name) ==
    IF W.exc # "" THEN W
    ELSE IF DictHas(W.rgrp[g].name2job, name)
         THEN LET j == DictGet(W.rgrp[g].name2job, name)
              IN  [JobCancel(W, j) EXCEPT !.rgrp[g] = JgRemove(@, j)]
         ELSE W

\* JobGroup.cancel_all of a receiver's group
RECURSIVE CancelJobs(_, _)
CancelJobs(W, d) ==
    IF d = <<>> THEN W ELSE CancelJobs(JobCancel(W, d[1].k), Tail(d))

RCancelAll(W, g) ==
    IF W.exc # "" THEN W
    ELSE [CancelJobs(W, W.rgrp[g].job2name) EXCEPT !.rgrp[g] = JgNew]

\* JobGroup.prerun_hook of the job j that is about to run
XPrerun(W, o, j) ==
    IF DictHas(W.xgrp[o].job2name, j) THEN [W EXCEPT !.xgrp[o] = JgRemove(@, j)]
    ELSE [W EXCEPT !.exc = "KeyError"]

RPrerun(W, g, j) ==
    IF DictHas(W.rgrp[g].job2name, j) THEN [W EXCEPT !.rgrp[g] = JgRemove(@, j)]
    ELSE [W EXCEPT !.exc = "KeyError"]

\* ------------------------------------------------------------------------
\* Radio: the completion callbacks of the device's radio peripheral
\* the pid the firmware registers its Radio under
RadioPid == 1

\* NVIC.set(pid) made by a callback of a peripheral
IrqSet(W, p) == [W EXCEPT !.reqs = @ \cup {p}, !.running = TRUE]

\* Radio.rxdone: the status is written (the driver's wait ends) and the
\* interrupt line is raised
RadioRxDone(W, g, m) ==
    IrqSet([Log(W, [e |-> "rxcb", g |-> g, n |-> W.rxn[g], m |-> m]) EXCEPT !.drv[g] = "idle"],
           RadioPid)

\* Radio.txdone
RadioTxDone(W, g, m) ==
    IrqSet([Log(W, [e |-> "txcb", g |-> g, m |-> m]) EXCEPT !.drv[g] = "idle"], RadioPid)

\* SymDetect: LoraMsgReceiver.__init__, symdetect:int=5
SymDetect == 5

\* ------------------------------------------------------------------------
\* LoraMsgReceiver as a listener of the Medium
\* LoraMsgReceiver.msg_preamble(msg, t)
RcvPreamble(W, g, m, t) ==
    LET tt == IF t = None THEN W.msgs[m].xbeg ELSE t
    IN  IF W.msgs[m].freq = W.rx[g].freq /\ W.msgs[m].rps = W.rx[g].rps /\ W.rx[g].msg = None
        THEN RSchedule([W EXCEPT !.rx[g].msg = m], g, "lock",
                       tt + SymTime(W.rx[g].rps, SymDetect), "msg_lock")
        ELSE W

\* msg_payload that forgets the candidate and leaves its lock job scheduled
RcvPayloadKeepLock(W, g, m) ==
    IF m = W.rx[g].msg /\ ~W.rx[g].locked
    THEN [W EXCEPT !.rx[g].msg = None]
    ELSE W

\* LoraMsgReceiver.msg_payload(msg)
RcvPayload(W, g, m) ==
    IF m = W.rx[g].msg /\ ~W.rx[g].locked
    THEN [RCancel(W, g, "lock") EXCEPT !.rx[g].msg = None]
    ELSE W

\* LoraMsgReceiver.msg_complete(msg)
RcvComplete(W, g, m) ==
    IF m = W.rx[g].msg /\ W.rx[g].locked THEN RadioRxDone(W, g, m) ELSE W

\* asyncio.Queue.put_nowait and asyncio.Queue.get of the gateway's queue
QueuePut(q, m) == Append(q, m)

QueueGetLast(q) == [item |-> q[Len(q)], rest |-> SubSeq(q, 1, Len(q) - 1)]

QueueGet(q) == [item |-> Head(q), rest |-> Tail(q)]

\* variant: the gateway enqueues every frame that is not IQ-inverted
GwCompleteAnySrc(W, m) ==
    IF ~IsIqInv(W.msgs[m].rps)
    THEN IF W.msgs[m].xpow = None THEN [W EXCEPT !.exc = "AssertionError"]
         ELSE Log([W EXCEPT !.msgs[m].rssi = W.msgs[m].xpow - 50,
                            !.msgs[m].snr = 10,
                            !.upframes = QueuePut(@, m)],
                  [e |-> "enq", m |-> m])
    ELSE W

\* UniversalGateway.msg_complete(msg)
GwComplete(W, m) ==
    IF W.msgs[m].src # 0 /\ ~IsIqInv(W.msgs[m].rps)
    THEN IF W.msgs[m].xpow = None THEN [W EXCEPT !.exc = "AssertionError"]
         ELSE Log([W EXCEPT !.msgs[m].rssi = W.msgs[m].xpow - 50,
                            !.msgs[m].snr = 10,
                            !.upframes = QueuePut(@, m)],
                  [e |-> "enq", m |-> m])
    ELSE W

\* one callback of the Medium to the listener l: ph is "pre", "pld" or "cmp"
\* (the gateway inherits the empty msg_preamble and msg_payload)
ListenerCall(W, l, ph, m, t) ==
    IF W.exc # "" THEN W
    ELSE LET W1 == Log(W, [e |-> "cb", l |-> l, ph |-> ph, m |-> m, t |-> t])
         IN  IF l = 0
             THEN IF ph = "cmp" THEN GwComplete(W1, m) ELSE W1
             ELSE CASE ph = "pre" -> RcvPreamble(W1, l, m, t)
                    [] ph = "pld" -> RcvPayload(W1, l, m)
                    [] ph = "cmp" -> RcvComplete(W1, l, m)
                    [] ph = "abt" -> W1

\* for l in self.listeners: l.msg_<ph>(msg), in the iteration order lord
RECURSIVE ForListeners(_, _, _, _)
ForListeners(W, lord, ph, m) ==
    IF Len(lord) = 0 THEN W
    ELSE ForListeners(ListenerCall(W, lord[1], ph, m, None),
                      [i \in 1..(Len(lord) - 1) |-> lord[i + 1]], ph, m)

\* ------------------------------------------------------------------------
\* SimpleMedium
\* add_listener(proc, t): the preambles in the air are replayed in the
\* iteration order mord of pmsg
RECURSIVE ReplayPreambles(_, _, _, _)
ReplayPreambles(W, l, mord, t) ==
    IF Len(mord) = 0 THEN W
    ELSE ReplayPreambles(ListenerCall(W, l, "pre", mord[1], t), l,
                         [i \in 1..(Len(mord) - 1) |-> mord[i + 1]], t)

\* add_listener that replays nothing
AddListenerNoReplay(W, l, t, mord) ==
    Log([W EXCEPT !.listeners = @ \cup {l}], [e |-> "add", l |-> l])

AddListener(W, l, t, mord) ==
    ReplayPreambles(Log([W EXCEPT !.listeners = @ \cup {l}], [e |-> "add", l |-> l]),
                    l, mord, t)

\* remove_listener(proc): set.remove raises KeyError for a missing element
RemoveListener(W, l) ==
    IF W.exc # "" THEN W
    ELSE IF l \in W.listeners
         THEN Log([W EXCEPT !.listeners = @ \ {l}], [e |-> "rm", l |-> l])
         ELSE [W EXCEPT !.exc = "KeyError"]

\* msg_preamble(msg)
MedPreamble(W, m, lord) ==
    ForListeners(Log([W EXCEPT !.pmsg = @ \cup {m}],
                     [e |-> "phase", ph |-> "pre", m |-> m, ls |-> W.listeners]),
                 lord, "pre", m)

\* variant: the message stays in pmsg when its payload starts
MedPayloadKeep(W, m, lord) ==
    ForListeners(Log(W, [e |-> "phase", ph |-> "pld", m |-> m, ls |-> W.listeners]),
                 lord, "pld", m)

\* msg_payload(msg)
MedPayload(W, m, lord) ==
    ForListeners(Log([W EXCEPT !.pmsg = @ \ {m}],
                     [e |-> "phase", ph |-> "pld", m |-> m, ls |-> W.listeners]),
                 lord, "pld", m)

\* msg_complete(msg)
MedComplete(W, m, lord) ==
    ForListeners(Log(W, [e |-> "phase", ph |-> "cmp", m |-> m, ls |-> W.listeners]),
                 lord, "cmp", m)

\* msg_abort(msg)
MedAbort(W, m, lord) ==
    ForListeners(Log([W EXCEPT !.pmsg = @ \ {m}],
                     [e |-> "phase", ph |-> "abt", m |-> m, ls |-> W.listeners]),
                 lord, "abt", m)

\* ------------------------------------------------------------------------
\* LoraMsgTransmitter of the owner o
\* transmit(msg) without the assertion on the slot
TransmitUnchecked(W, o, msg) ==
    LET m == Len(W.msgs) + 1
    IN  XSchedule(Log([W EXCEPT !.msgs = Append(@, msg), !.xm[o] = m],
                      [e |-> "tx", o |-> o, m |-> m]),
                  o, msg.xbeg, "txstart")

\* transmit(msg), for a message the caller has just created
Transmit(W, o, msg) ==
    IF W.xm[o] # None THEN [W EXCEPT !.exc = "AssertionError"]
    ELSE LET m == Len(W.msgs) + 1
         IN  XSchedule(Log([W EXCEPT !.msgs = Append(@, msg), !.xm[o] = m],
                           [e |-> "tx", o |-> o, m |-> m]),
                       o, msg.xbeg, "txstart")

\* txstart
TxStart(W, o, lord) ==
    IF W.xm[o] = None THEN [W EXCEPT !.exc = "AssertionError"]
    ELSE XSchedule(MedPreamble(W, W.xm[o], lord), o, W.msgs[W.xm[o]].xpld, "txpayload")

\* txpayload
TxPayload(W, o, lord) ==
    IF W.xm[o] = None THEN [W EXCEPT !.exc = "AssertionError"]
    ELSE XSchedule(MedPayload(W, W.xm[o], lord), o, W.msgs[W.xm[o]].xend, "txdone")

\* txdone: the gateway's transmitter has no cb
TxDone(W, o, lord) ==
    IF W.xm[o] = None THEN [W EXCEPT !.exc = "AssertionError"]
    ELSE LET W1 == MedComplete(W, W.xm[o], lord)
             W2 == IF o # 0 /\ W1.exc = "" THEN RadioTxDone(W1, o, W.xm[o]) ELSE W1
         IN  IF W2.exc # "" THEN W2 ELSE [W2 EXCEPT !.xm[o] = None]

\* ------------------------------------------------------------------------
\* LoraMsgReceiver of the Radio g
\* receive(rxtime, freq, rps, minsyms)
Receive(W, g, rxtime, freq, rps, minsyms) ==
    RSchedule([W EXCEPT !.rx[g] = [freq |-> freq,
                                   rps |-> IF IsFSK(rps) THEN 0 ELSE rps,
                                   minsyms |-> minsyms, rxtime |-> rxtime,
                                   msg |-> None, locked |-> FALSE]],
              g, "", rxtime, "rxstart")

\* rxstart
RxStart(W, g, mord) ==
    RSchedule(AddListener(W, g, W.rx[g].rxtime, mord), g, "timeout",
              W.rx[g].rxtime + SymTime(W.rx[g].rps, W.rx[g].minsyms), "timeout")

\* timeout
Timeout(W, g) ==
    LET W1 == RCancelAll(RemoveListener(W, g), g)
    IN  IF W1.exc # "" THEN W1 ELSE RadioRxDone(W1, g, None)

\* msg_lock
MsgLock(W, g) ==
    LET W1 == RCancel(W, g, "timeout")
    IN  IF W1.exc # "" THEN W1 ELSE [W1 EXCEPT !.rx[g].locked = TRUE]

\* the receiver of a Radio on which receive() has not been called
NewReceiver ==
    [freq |-> None, rps |-> None, minsyms |-> None, rxtime |-> None,
     msg |-> None, locked |-> FALSE]

SetWorld(W) ==
    /\ SetRT(W)
    /\ msgs' = W.msgs
    /\ pmsg' = W.pmsg
    /\ listeners' = W.listeners
    /\ xm' = W.xm
    /\ xgrp' = W.xgrp
    /\ rx' = W.rx
    /\ rgrp' = W.rgrp
    /\ upframes' = W.upframes
    /\ drv' = W.drv
    /\ epoch' = W.epoch
    /\ fault' = W.exc
    /\ rxn' = W.rxn
    /\ trace' = W.trace
    /\ reqs' = W.reqs
    /\ running' = W.running

\* ------------------------------------------------------------------------
\* Emulator core: the driver loop, SVC traps, interrupt dispatch and return
\* 32-bit addresses are written as signed integers (0xfffffff0 is -16)
SpecialPC == 0 - 16         \* 0xfffffff0, the block irq_return accepts
MagicLR   == 0 - 15         \* 0xfffffff1, the LR an interrupt handler is entered with
ResetLR   == 0 - 240        \* 0xffffff10, the LR after reset

\* guest addresses: return addresses carry the Thumb bit; code of the main
\* program lies below CodeSpan, the handler of pid p in [p * CodeSpan, (p+1) * CodeSpan)
CodeSpan   == 32
EntryPoint == 17
MainAddrs  == {17, 19}
Pids       == {1, 2}
Vtor(p)    == p * CodeSpan + 1
HAddr(p)   == p * CodeSpan + 3
Prio(p)    == p
Garbage    == 0             \* a word of the interrupted code's own stack data

\* the address emulation fetches from when started at, or branching to, a
ThumbAddr(a) == a - (a % 2)

InMain(a)    == a > 0 /\ a < CodeSpan
InHandler(a) == \E p \in Pids : a \div CodeSpan = p
HandlerOf(a) == a \div CodeSpan

\* the return addresses of calls made by the code at a
RetAddrs(a) == IF InMain(a) THEN MainAddrs ELSE {HAddr(HandlerOf(a))}

Last(s)  == s[Len(s)]
Front(s) == SubSeq(s, 1, Len(s) - 1)

\* NVIC.requested (IrqHandler.requested for the dummy handler)
NvicRequested == nvic /\ reqs # {}

\* NVIC.handler: the pending pid of highest priority, dispatched if its
\* priority is above the top of cprio
NvicPick == CHOOSE p \in reqs : \A q \in reqs : Prio(q) <= Prio(p)

\* NVIC.set / NVIC.clear
NvicSet(p)   == reqs' = reqs \cup {p} /\ running' = TRUE
NvicClear(p) == reqs' = reqs \ {p}

\* Simulation.svc_wfi: the new value of the running event
SvcWfiAlways(run, req) == FALSE

SvcWfi(run, req) == IF ~req THEN FALSE ELSE run

\* emu_stop has been called and emu_start returns into Simulation.run: a
\* recorded exception is raised, otherwise the loop is at running.wait()
LoopAfterStop(exv, run) ==
    /\ dloop' = IF exv # "" THEN "raised" ELSE "wait"
    /\ blocked' = (exv = "" /\ ~run)

EmuInit ==
    /\ pc = EntryPoint
    /\ lr = ResetLR
    /\ gstack = <<>>
    /\ reqs = {}
    /\ cprio = <<0 - 1>>
    /\ nvic = TRUE
    /\ running = TRUE
    /\ ex = ""
    /\ dloop = "emu"
    /\ blocked = FALSE
    /\ epc = ThumbAddr(EntryPoint)
    /\ frames = <<>>
    /\ iret = [got |-> None, want |-> None]
    /\ gop = "boot"

\* Simulation.run, from running.wait() to emu_start: dispatch the pending
\* interrupt NVIC.handler returns, or continue at self.pc
DriverWake ==
    /\ dloop = "wait"
    /\ running
    /\ blocked' = FALSE
    /\ IF NvicRequested
       THEN IF cprio = <<>>
            THEN \* cprio[-1] raises IndexError out of run()
                 /\ dloop' = "raised"
                 /\ UNCHANGED <<lr, gstack, cprio, epc, frames>>
            ELSE IF Prio(NvicPick) <= Last(cprio)
                 THEN /\ dloop' = "emu"
                      /\ epc' = ThumbAddr(pc)
                      /\ UNCHANGED <<lr, gstack, cprio, frames>>
                 ELSE /\ cprio' = Append(cprio, Prio(NvicPick))
                      /\ gstack' = Append(gstack, lr)
                      /\ lr' = MagicLR
                      /\ dloop' = "emu"
                      /\ epc' = ThumbAddr(Vtor(NvicPick))
                      /\ frames' = Append(frames, [pc |-> pc, cprio |-> cprio])
       ELSE /\ dloop' = "emu"
            /\ epc' = ThumbAddr(pc)
            /\ UNCHANGED <<lr, gstack, cprio, frames>>
    /\ gop' = "run"
    /\ UNCHANGED <<pc, reqs, nvic, running, ex, iret>>
    /\ UNCHANGED <<rtVars, lnsVars, vtVars, perVars, medVars>>

\* emulation was started at an address that holds no code: emu_start raises
EmuFault ==
    /\ dloop = "emu"
    /\ epc = Garbage
    /\ dloop' = "raised"
    /\ gop' = "fault"
    /\ UNCHANGED <<pc, lr, gstack, reqs, cprio, nvic, running, ex, blocked, epc, frames, iret>>
    /\ UNCHANGED <<rtVars, lnsVars, vtVars, perVars, medVars>>

\* the guest is executing code
GuestRuns == dloop = "emu" /\ epc # Garbage /\ epc # SpecialPC

\* SVC WFI called from the code running; the call's return address is in LR
GuestWfi ==
    /\ GuestRuns
    /\ \E r \in RetAddrs(epc) :
        /\ lr' = r
        /\ pc' = r
    /\ running' = SvcWfi(running, NvicRequested)
    /\ LoopAfterStop(ex, running')
    /\ gop' = "wfi"
    /\ UNCHANGED <<gstack, reqs, cprio, nvic, ex, epc, frames, iret>>
    /\ UNCHANGED <<rtVars, lnsVars, vtVars, perVars, medVars>>

\* SVC IRQ: back to the driver loop, which looks for a pending interrupt
GuestSvcIrq ==
    /\ GuestRuns
    /\ \E r \in RetAddrs(epc) :
        /\ lr' = r
        /\ pc' = r
    /\ LoopAfterStop(ex, running)
    /\ gop' = "irq"
    /\ UNCHANGED <<gstack, reqs, cprio, nvic, running, ex, epc, frames, iret>>
    /\ UNCHANGED <<rtVars, lnsVars, vtVars, perVars, medVars>>

\* a peripheral's svc_clearirq (Radio, FastUART): NVIC.clear, emulation goes on
GuestClearIrq ==
    /\ GuestRuns
    /\ \E p \in Pids : NvicClear(p)
    /\ \E r \in RetAddrs(epc) :
        /\ lr' = r
        /\ epc' = ThumbAddr(r)
    /\ gop' = "clearirq"
    /\ UNCHANGED <<pc, gstack, cprio, nvic, running, ex, dloop, blocked, frames, iret>>
    /\ UNCHANGED <<rtVars, lnsVars, vtVars, perVars, medVars>>

\* a peripheral's svc that raises its line (GPIO.svc -> update): NVIC.set
GuestSetIrq ==
    /\ GuestRuns
    /\ \E p \in Pids : NvicSet(p)
    /\ \E r \in RetAddrs(epc) :
        /\ lr' = r
        /\ epc' = ThumbAddr(r)
    /\ gop' = "setirq"
    /\ UNCHANGED <<pc, gstack, cprio, nvic, ex, dloop, blocked, frames, iret>>
    /\ UNCHANGED <<rtVars, lnsVars, vtVars, perVars, medVars>>

\* SVC PANIC: svc_panic raises, intr records the exception and stops
GuestPanic ==
    /\ GuestRuns
    /\ ex' = "RuntimeError"
    /\ LoopAfterStop(ex', running)
    /\ gop' = "panic"
    /\ UNCHANGED <<pc, lr, gstack, reqs, cprio, nvic, running, epc, frames, iret>>
    /\ UNCHANGED <<rtVars, lnsVars, vtVars, perVars, medVars>>

\* a handler returns: it branches to the LR it was entered with; its own
\* calls have left either that value or one of its return addresses in LR
HandlerReturn ==
    /\ GuestRuns
    /\ InHandler(epc)
    /\ epc' = ThumbAddr(MagicLR)
    /\ lr' \in {MagicLR, HAddr(HandlerOf(epc))}
    /\ gop' = "return"
    /\ UNCHANGED <<pc, gstack, reqs, cprio, nvic, running, ex, dloop, blocked, frames, iret>>
    /\ UNCHANGED <<rtVars, lnsVars, vtVars, perVars, medVars>>

\* Simulation.irq_return, the block hook of the special return window:
\* pc = stack_pop() (below the words stack_push wrote lies the interrupted
\* code's data), emu_stop(), NVIC.done(). done() pops cprio and asserts
\* the popped entry is not the base; an exception of the hook either comes
\* out of emu_start or is lost in the emulator's callback layer
IrqReturn ==
    /\ dloop = "emu"
    /\ epc = SpecialPC
    /\ pc' = IF gstack = <<>> THEN Garbage ELSE Last(gstack)
    /\ gstack' = IF gstack = <<>> THEN gstack ELSE Front(gstack)
    /\ cprio' = IF cprio = <<>> THEN cprio ELSE Front(cprio)
    /\ IF cprio = <<>> \/ Last(cprio) = 0 - 1
       THEN \/ dloop' = "raised" /\ blocked' = FALSE
            \/ LoopAfterStop(ex, running)
       ELSE LoopAfterStop(ex, running)
    /\ frames' = IF frames = <<>> THEN frames ELSE Front(frames)
    /\ iret' = [got |-> pc', want |-> IF frames = <<>> THEN None ELSE Last(frames).pc]
    /\ gop' = "iret"
    /\ UNCHANGED <<lr, reqs, nvic, running, ex, epc>>
    /\ UNCHANGED <<rtVars, lnsVars, vtVars, perVars, medVars>>

\* a peripheral raises its line from a callback of the host (Radio.txdone,
\* Radio.rxdone, FastUART.send, GPIO.drive) while the driver task is suspended
ExtIrq ==
    /\ dloop = "wait"
    /\ blocked
    /\ nvic
    /\ \E p \in Pids : NvicSet(p)
    /\ gop' = "extirq"
    /\ UNCHANGED <<pc, lr, gstack, cprio, nvic, ex, dloop, blocked, epc, frames, iret>>
    /\ UNCHANGED <<rtVars, lnsVars, vtVars, perVars, medVars>>

\* Timer.alarm
TimerAlarm ==
    /\ dloop = "wait"
    /\ blocked
    /\ ~running
    /\ running' = TRUE
    /\ gop' = "alarm"
    /\ UNCHANGED <<pc, lr, gstack, reqs, cprio, nvic, ex, dloop, blocked, epc, frames, iret>>
    /\ UNCHANGED <<rtVars, lnsVars, vtVars, perVars, medVars>>

\* ------------------------------------------------------------------------
\* Peripherals. Register bits are modelled as sets of pin numbers.
MaxUartTx == 6      \* svc(0) calls of the FastUART in one run

\* the classes Peripherals.peripherals knows (those with @Peripherals.add)
PerTypes == {"NVIC", "DebugUnit", "Timer", "GPIO", "FastUART", "Radio"}

\* the pids the firmware's start-up registers its peripherals under
NvicPid  == 0
TimerPid == 2
GpioPid  == 3
UartPid  == 4

\* the table once the firmware's start-up has registered its peripherals
StartTable ==
    <<[k |-> NvicPid, v |-> "NVIC"], [k |-> RadioPid, v |-> "Radio"],
      [k |-> TimerPid, v |-> "Timer"], [k |-> GpioPid, v |-> "GPIO"],
      [k |-> UartPid, v |-> "FastUART"]>>

\* FastUART.init: the event is new; txn counts the frames the firmware has
\* put into txbuf (history), unread those signalled since a recv() returned
UartNew == [event |-> FALSE, wait |-> "none", txn |-> 0, unread |-> 0]

\* GPIO.init: the registers and the external interface are zero
GpioNew ==
    [value |-> {}, outm |-> {}, outv |-> {}, pdn |-> {}, pup |-> {}, rise |-> {},
     fall |-> {}, irq |-> {}, inpm |-> {}, inpv |-> {}, epup |-> {}, epdn |-> {}]

PerInit ==
    /\ periph = StartTable
    /\ pages = {StartTable[i].k : i \in 1..Len(StartTable)}
    /\ hooks = <<TimerPid>>
    /\ uart = UartNew
    /\ gpio = GpioNew
    /\ pop = [op |-> "init"]

\* FastUART.svc(fid) as far as the FastUART's own state goes: svc_send sets
\* the event (the firmware has filled txbuf and txlen before the call)
UartSvc(u, fid) ==
    IF fid = 0
    THEN [u EXCEPT !.event = TRUE, !.txn = @ + 1, !.unread = @ + 1]
    ELSE u

\* the firmware sends a frame: it fills txbuf and calls svc(0)
UartSvcSend ==
    /\ uart.txn < MaxUartTx
    /\ uart' = UartSvc(uart, 0)
    /\ pop' = [op |-> "svc_send", waiting |-> uart.wait # "none"]
    /\ UNCHANGED <<periph, pages, hooks, gpio>>
    /\ UNCHANGED <<rtVars, lnsVars, vtVars, medVars, emuVars>>

\* FastUART.recv(timeout=...), up to its await: the event is cleared and the
\* caller is suspended in wait_for(self.event.wait(), timeout)
UartRecv ==
    /\ uart.wait = "none"
    /\ \E tmo \in {"forever", "timed"} :
        /\ uart' = [uart EXCEPT !.event = FALSE, !.wait = tmo]
        /\ pop' = [op |-> "recv", tmo |-> tmo, unread |-> uart.unread]
    /\ UNCHANGED <<periph, pages, hooks, gpio>>
    /\ UNCHANGED <<rtVars, lnsVars, vtVars, medVars, emuVars>>

\* the event is set and the suspended recv() resumes: it returns the bytes
\* of txbuf (the frame the firmware put there last)
UartRecvReturn ==
    /\ uart.wait # "none"
    /\ uart.event
    /\ uart' = [uart EXCEPT !.wait = "none", !.unread = 0]
    /\ pop' = [op |-> "recv_return", res |-> uart.txn, unread |-> uart.unread]
    /\ UNCHANGED <<periph, pages, hooks, gpio>>
    /\ UNCHANGED <<rtVars, lnsVars, vtVars, medVars, emuVars>>

\* the timeout of wait_for expires with the event not set: recv() returns None
UartRecvTimeout ==
    /\ uart.wait = "timed"
    /\ ~uart.event
    /\ uart' = [uart EXCEPT !.wait = "none"]
    /\ pop' = [op |-> "recv_return", res |-> None, unread |-> uart.unread]
    /\ UNCHANGED <<periph, pages, hooks, gpio>>
    /\ UNCHANGED <<rtVars, lnsVars, vtVars, medVars, emuVars>>

\* ------------------------------------------------------------------------
\* GPIO. Pins are the bit positions of the 32-bit registers the model keeps.
Pins == {0, 1}

\* the pins the test scripts configure a pull on
ExtPins == {1}

\* a & ~b, and a ^ b, of two masks
AndNot(a, b) == a \ b
Xor(a, b)    == (a \ b) \cup (b \ a)

\* an update in which a pull-down outweighs a pull-up
GpioUpdatePdnWins(g, rnd) ==
    IF g.outm \cap g.inpm # {} THEN [exc |-> "RuntimeError", g |-> g]
    ELSE LET v0   == AndNot(g.pup \cup g.epup, g.pdn \cup g.epdn)
             v1   == v0 \cup AndNot(rnd, g.pdn \cup g.epdn)
             v2   == AndNot(v1, g.outm \cup g.inpm)
             v3   == v2 \cup (g.outm \cap g.outv)
             val  == v3 \cup (g.inpm \cap g.inpv)
             cval == Xor(g.value, val)
         IN  [exc |-> "",
              g |-> [g EXCEPT !.value = val,
                              !.irq = @ \cup (g.rise \cap cval \cap val)
                                        \cup AndNot(g.fall \cap cval, val)]]

\* GPIO.update up to its call of the interrupt handler; rnd is the value of
\* random.getrandbits(32)
GpioUpdate(g, rnd) ==
    IF g.outm \cap g.inpm # {} THEN [exc |-> "RuntimeError", g |-> g]
    ELSE LET v0   == g.pup \cup g.epup
             v1   == v0 \cup AndNot(rnd, g.pdn \cup g.epdn)
             v2   == AndNot(v1, g.outm \cup g.inpm)
             v3   == v2 \cup (g.outm \cap g.outv)
             val  == v3 \cup (g.inpm \cap g.inpv)
             cval == Xor(g.value, val)
         IN  [exc |-> "",
              g |-> [g EXCEPT !.value = val,
                              !.irq = IF cval # {}
                                      THEN @ \cup (g.rise \cap cval \cap val)
                                             \cup AndNot(g.fall \cap cval, val)
                                      ELSE @]]

\* the pins on which the random bits show: not driven, no pull-up or pull-down
Floating(g) == Pins \ (g.outm \cup g.inpm \cup g.pup \cup g.epup \cup g.pdn \cup g.epdn)

\* GPIO.update called on the GPIO g0 by op: the registers are updated, then
\* the line of the GPIO is set or cleared at Simulation.irqhandler (the
\* dummy handler raises NotImplementedError). pop records the call and the
\* exception it raised.
GpioDoUpdate(op, g0) ==
    \E rnd \in SUBSET Floating(g0) :
        LET u == GpioUpdate(g0, rnd)
        IN  /\ gpio' = u.g
            /\ IF u.exc # ""
               THEN UNCHANGED <<reqs, running>>
               ELSE IF ~nvic THEN UNCHANGED <<reqs, running>>
               ELSE IF u.g.irq # {} THEN NvicSet(GpioPid)
               ELSE NvicClear(GpioPid) /\ UNCHANGED running
            /\ pop' = [op |-> op,
                       exc |-> IF u.exc # "" THEN u.exc
                               ELSE IF ~nvic THEN "NotImplementedError" ELSE ""]

\* the register settings the firmware writes: <<outm, outv, pdn, pup, rise, fall>>
GpioCfgs ==
    {<<{}, {}, {}, {}, {0, 1}, {}>>,
     <<{0}, {0}, {1}, {1}, {}, {1}>>,
     <<{0, 1}, {1}, {}, {}, {0}, {0, 1}>>,
     <<{}, {}, {1}, {0}, {0, 1}, {0, 1}>>}

\* the firmware stores to the GPIO's register page
GpioWrite ==
    /\ \E c \in GpioCfgs :
        gpio' = [gpio EXCEPT !.outm = c[1], !.outv = c[2], !.pdn = c[3], !.pup = c[4],
                             !.rise = c[5], !.fall = c[6]]
    /\ pop' = [op |-> "write", exc |-> ""]
    /\ UNCHANGED <<periph, pages, hooks, uart>>
    /\ UNCHANGED <<rtVars, lnsVars, vtVars, medVars, emuVars>>

\* the firmware acknowledges interrupts: it clears bits of the irq register
GpioAck ==
    /\ gpio.irq # {}
    /\ \E b \in (SUBSET gpio.irq) \ {{}} : gpio' = [gpio EXCEPT !.irq = @ \ b]
    /\ pop' = [op |-> "ack", exc |-> ""]
    /\ UNCHANGED <<periph, pages, hooks, uart>>
    /\ UNCHANGED <<rtVars, lnsVars, vtVars, medVars, emuVars>>

\* GPIO.svc(0), called by the firmware
GpioSvc ==
    /\ GpioDoUpdate("svc", gpio)
    /\ UNCHANGED <<periph, pages, hooks, uart>>
    /\ UNCHANGED <<rtVars, lnsVars, vtVars, medVars, emuRest>>

\* GPIO.drive(pio, value), called by a test script
GpioDrive ==
    /\ \E pio \in Pins, value \in {"None", "False", "True"} :
        GpioDoUpdate("drive",
            IF value = "None" THEN [gpio EXCEPT !.inpm = @ \ {pio}]
            ELSE [gpio EXCEPT !.inpv = IF value = "True" THEN @ \cup {pio} ELSE @ \ {pio},
                              !.inpm = @ \cup {pio}])
    /\ UNCHANGED <<periph, pages, hooks, uart>>
    /\ UNCHANGED <<rtVars, lnsVars, vtVars, medVars, emuRest>>

\* GPIO.extconfig(pio, pullup=..., pulldn=...), called by a test script
GpioExtConfig ==
    /\ \E pio \in ExtPins, pullup \in BOOLEAN, pulldn \in BOOLEAN :
        GpioDoUpdate("extconfig",
            [gpio EXCEPT !.epup = IF pullup THEN @ \cup {pio} ELSE @ \ {pio},
                         !.epdn = IF pulldn THEN @ \cup {pio} ELSE @ \ {pio}])
    /\ UNCHANGED <<periph, pages, hooks, uart>>
    /\ UNCHANGED <<rtVars, lnsVars, vtVars, medVars, emuRest>>

\* ------------------------------------------------------------------------
\* Supervisor calls and reset
SVC_PERIPH_BASE == 16777216     \* 0x01000000
MaxSvcTx == 1       \* svc(0) calls of the FastUART made through the SVC handler

\* the svcids the guest calls with: the five calls of the Simulation, two
\* that are none, and calls of the peripherals <<pid, fid>>, of which one
\* carries a second byte above the pid
SvcPerCalls == {<<0, 0>>, <<3, 0>>, <<3, 1>>, <<4, 0>>, <<4, 1>>, <<4, 2>>, <<5, 0>>}
SvcIds ==
    {0, 1, 2, 3, 4, 5, SVC_PERIPH_BASE - 1}
        \cup {SVC_PERIPH_BASE + c[1] * 65536 + c[2] : c \in SvcPerCalls}
        \cup {2 * SVC_PERIPH_BASE + 3 * 65536}

\* the arguments of SVC PERIPH_REG: the pid, and the class the uuid names
\* ("" for a uuid no class has)
RegPids  == {NvicPid, GpioPid}
RegTypes == {"NVIC", "GPIO", "FastUART", ""}

\* what the SVC handler reads and writes of the Simulation and its peripherals
SvcState ==
    [periph |-> periph, pages |-> pages, hooks |-> hooks, nvic |-> nvic, reqs |-> reqs,
     cprio |-> cprio, running |-> running, uart |-> uart, gpio |-> gpio,
     exc |-> "", flow |-> "return", reset |-> FALSE, called |-> <<>>]

Raise(S, e) == [S EXCEPT !.exc = e]

\* a reset that leaves the pre-run hooks in place
ResetTableKeepHooks(S) ==
    [S EXCEPT !.nvic = FALSE,
              !.pages = @ \ {S.periph[i].k : i \in 1..Len(S.periph)},
              !.periph = <<>>,
              !.running = TRUE,
              !.reset = TRUE]

\* Simulation.reset, as far as the interrupt handler, the table, the pages,
\* the hooks and the running event go
ResetTable(S) ==
    [S EXCEPT !.nvic = FALSE,
              !.pages = @ \ {S.periph[i].k : i \in 1..Len(S.periph)},
              !.periph = <<>>,
              !.hooks = <<>>,
              !.running = TRUE,
              !.reset = TRUE]

\* Simulation.svc_register -> Peripherals.create -> Peripheral.__init__ -> init
SvcRegister(S, pid, type) ==
    IF type \notin PerTypes THEN Raise(S, "ValueError")
    ELSE LET S1 == [S EXCEPT !.pages = @ \cup {pid}]
             S2 == CASE type = "NVIC" ->
                            [S1 EXCEPT !.nvic = TRUE, !.reqs = {}, !.cprio = <<0 - 1>>]
                      [] type = "GPIO" -> [S1 EXCEPT !.gpio = GpioNew]
                      [] type = "FastUART" -> [S1 EXCEPT !.uart = UartNew]
                      [] OTHER -> S1
         IN  [S2 EXCEPT !.periph = DictSet(@, pid, type)]

\* the interrupt handler's set and clear (the dummy handler raises)
LineSet(S, pid) ==
    IF ~S.nvic THEN Raise(S, "NotImplementedError")
    ELSE [S EXCEPT !.reqs = @ \cup {pid}, !.running = TRUE]

LineClear(S, pid) ==
    IF ~S.nvic THEN Raise(S, "NotImplementedError")
    ELSE [S EXCEPT !.reqs = @ \ {pid}]

\* p.svc(fid) of the peripheral of class type registered under pid
PerSvc(S, pid, type, fid, rnd) ==
    LET S1 == [S EXCEPT !.called = <<pid, fid, type>>]
    IN  CASE type = "NVIC" -> Raise(S1, "NotImplementedError")
          [] type \in {"DebugUnit", "Timer"} ->
                IF fid # 0 THEN Raise(S1, "AssertionError") ELSE S1
          [] type = "GPIO" ->
                IF fid # 0 THEN Raise(S1, "AssertionError")
                ELSE LET u == GpioUpdate(S.gpio, rnd)
                     IN  IF u.exc # "" THEN Raise(S1, u.exc)
                         ELSE IF u.g.irq # {} THEN LineSet([S1 EXCEPT !.gpio = u.g], pid)
                         ELSE LineClear([S1 EXCEPT !.gpio = u.g], pid)
          [] type = "FastUART" ->
                IF fid = 0 THEN [S1 EXCEPT !.uart = UartSvc(@, 0)]
                ELSE IF fid = 1 THEN LineClear(S1, pid)
                ELSE Raise(S1, "KeyError")

\* a dispatch that takes all of svcid >> 16 for the pid
IntrWidePid(S, svcid, pid, type, rnd) ==
    IF svcid < SVC_PERIPH_BASE
    THEN CASE svcid = 0 -> Raise(S, "RuntimeError: PANIC")
           [] svcid = 1 -> SvcRegister(S, pid, type)
           [] svcid = 2 -> [S EXCEPT !.running = SvcWfi(S.running, S.nvic /\ S.reqs # {}),
                                     !.flow = "continue"]
           [] svcid = 3 -> [S EXCEPT !.flow = "continue"]
           [] svcid = 4 -> [ResetTable(S) EXCEPT !.flow = "reset"]
           [] OTHER -> Raise(S, "RuntimeError: Unknown SVCID")
    ELSE LET p == svcid \div 65536
         IN  IF ~DictHas(S.periph, p) THEN Raise(S, "RuntimeError: Unknown peripheral ID")
             ELSE PerSvc(S, p, DictGet(S.periph, p), svcid % 65536, rnd)

\* Simulation._intr(2): the SVC with the svcid of R0; pid and type are the
\* arguments a PERIPH_REG reads from R1 and R2
Intr(S, svcid, pid, type, rnd) ==
    IF svcid < SVC_PERIPH_BASE
    THEN CASE svcid = 0 -> Raise(S, "RuntimeError: PANIC")
           [] svcid = 1 -> SvcRegister(S, pid, type)
           [] svcid = 2 -> [S EXCEPT !.running = SvcWfi(S.running, S.nvic /\ S.reqs # {}),
                                     !.flow = "continue"]
           [] svcid = 3 -> [S EXCEPT !.flow = "continue"]
           [] svcid = 4 -> [ResetTable(S) EXCEPT !.flow = "reset"]
           [] OTHER -> Raise(S, "RuntimeError: Unknown SVCID")
    ELSE LET p == (svcid \div 65536) % 256
         IN  IF ~DictHas(S.periph, p) THEN Raise(S, "RuntimeError: Unknown peripheral ID")
             ELSE PerSvc(S, p, DictGet(S.periph, p), svcid % 65536, rnd)

\* the parts of Simulation.reset that are not in ResetTable: Runtime.reset,
\* pc, SP and LR
ResetRest ==
    /\ jobs' = RuntimeReset(RT).jobs
    /\ handle' = RuntimeReset(RT).handle
    /\ timers' = RuntimeReset(RT).timers
    /\ pc' = EntryPoint
    /\ lr' = ResetLR
    /\ gstack' = <<>>
    /\ frames' = <<>>

\* the table, the peripherals and the interrupt handler become those of S
SetSvcState(S) ==
    /\ periph' = S.periph
    /\ pages' = S.pages
    /\ hooks' = S.hooks
    /\ nvic' = S.nvic
    /\ reqs' = S.reqs
    /\ cprio' = S.cprio
    /\ running' = S.running
    /\ uart' = S.uart
    /\ gpio' = S.gpio

\* Simulation.intr(2): the guest executes an SVC instruction. The handler's
\* exception is recorded in ex and the emulator is stopped; SRC_CONTINUE
\* sets pc to LR and stops; SRC_RETURN and a peripheral's svc write LR to
\* the PC register and emulation goes on; SRC_RESET resets and stops.
SvcCall ==
    /\ ~stepping
    /\ fault = ""
    /\ GuestRuns
    /\ \E svcid \in SvcIds, pid \in RegPids, type \in RegTypes, r \in RetAddrs(epc) :
        /\ svcid = 1 => pid \notin pages
        /\ svcid # 1 => pid = NvicPid /\ type = ""
        /\ svcid >= SVC_PERIPH_BASE /\ svcid % 65536 = 0
               /\ DictHas(periph, (svcid \div 65536) % 256)
               /\ DictGet(periph, (svcid \div 65536) % 256) = "FastUART"
               => uart.txn < MaxSvcTx
        /\ \E rnd \in SUBSET Floating(gpio) :
            LET S == Intr(SvcState, svcid, pid, type, rnd)
            IN  /\ SetSvcState(S)
                /\ ex' = IF S.exc # "" THEN S.exc ELSE ex
                /\ pop' = [op |-> "svc", svcid |-> svcid, pid |-> pid, type |-> type,
                           exc |-> S.exc, flow |-> S.flow, called |-> S.called]
                /\ IF S.exc # ""
                   THEN /\ LoopAfterStop(ex', S.running)
                        /\ lr' = r
                        /\ UNCHANGED <<pc, epc, gstack, frames, jobs, handle, timers>>
                   ELSE IF S.flow = "reset"
                   THEN /\ ResetRest
                        /\ LoopAfterStop(ex, S.running)
                        /\ UNCHANGED epc
                   ELSE IF S.flow = "continue"
                   THEN /\ pc' = r
                        /\ lr' = r
                        /\ LoopAfterStop(ex, S.running)
                        /\ UNCHANGED <<epc, gstack, frames, jobs, handle, timers>>
                   ELSE /\ epc' = ThumbAddr(r)
                        /\ lr' = r
                        /\ UNCHANGED <<pc, dloop, blocked, gstack, frames, jobs, handle,
                                       timers>>
    /\ gop' = "svc"
    /\ UNCHANGED iret
    /\ UNCHANGED <<job, stepping, clk, now, ran, lastrun>>
    /\ UNCHANGED <<lnsVars, vtVars, medVars>>

\* Simulation.run is started anew after a run has ended with an exception:
\* reset(), then the loop waits for the running event
RunStart ==
    /\ ~stepping
    /\ fault = ""
    /\ dloop = "raised"
    /\ SetSvcState(ResetTable(SvcState))
    /\ ResetRest
    /\ dloop' = "wait"
    /\ blocked' = FALSE
    /\ pop' = [op |-> "run"]
    /\ gop' = "reset"
    /\ UNCHANGED <<ex, epc, iret>>
    /\ UNCHANGED <<job, stepping, clk, now, ran, lastrun>>
    /\ UNCHANGED <<lnsVars, vtVars, medVars>>

\* the classes the test scripts look up
LookupTypes == {"NVIC", "GPIO", "FastUART"}

\* Simulation.get_peripheral(ptype), called by a test script: the first
\* peripheral of the table that has the uuid of ptype, or ValueError
GetPeripheral ==
    /\ \E t \in LookupTypes :
        LET hits == {i \in 1..Len(periph) : periph[i].v = t}
        IN  pop' = [op |-> "get_peripheral", type |-> t,
                    exc |-> IF hits = {} THEN "ValueError" ELSE "",
                    pid |-> IF hits = {} THEN None
                            ELSE periph[CHOOSE i \in hits : \A j \in hits : i <= j].k]
    /\ UNCHANGED <<periph, pages, hooks, uart, gpio>>
    /\ UNCHANGED <<rtVars, lnsVars, vtVars, medVars, emuVars>>

\* ------------------------------------------------------------------------
\* Scheduler on its own: client code schedules and cancels plain jobs
RtInit ==
    /\ job = <<>>
    /\ jobs = <<>>
    /\ handle = None
    /\ timers = <<>>
    /\ stepping = FALSE
    /\ clk = 0
    /\ now = 0
    /\ ran = <<>>
    /\ lastrun = [job |-> 0, waiting |-> {}]

\* the clock advances, also while step() is running (step() reads it once)
Tick ==
    /\ clk < MaxTicks
    /\ clk' = clk + 1
    /\ UNCHANGED <<job, jobs, handle, timers, stepping, now, ran, lastrun>>
    /\ UNCHANGED <<lnsVars, vtVars, perVars, medVars, emuVars>>

\* step() is running: entered and not left, neither by return nor by an
\* exception of a job
InStep == stepping /\ fault = ""

\* client code calls Runtime.schedule(t, Job())
Schedule ==
    /\ ~InStep
    /\ Len(job) < MaxJobs
    /\ \E t \in 0..MaxTicks : SetRT(RtSchedule(RT, t, "user", None))
    /\ UNCHANGED <<clk, now, ran, lastrun>>
    /\ UNCHANGED <<lnsVars, vtVars, perVars, medVars, emuVars>>

\* client code calls Job.cancel() on a job it scheduled
Cancel ==
    /\ ~InStep
    /\ \E i \in 1..Len(jobs) : SetRT(JobCancel(RT, jobs[i]))
    /\ UNCHANGED <<clk, now, ran, lastrun>>
    /\ UNCHANGED <<lnsVars, vtVars, perVars, medVars, emuVars>>

\* the host timer fires Runtime.step: now is read, stepping is set
StepBegin ==
    /\ ~stepping
    /\ fault = ""
    /\ \E i \in 1..Len(timers) :
        /\ clk >= timers[i]
        /\ timers' = TimerCancel(timers, timers[i])
    /\ now' = clk
    /\ stepping' = TRUE
    /\ UNCHANGED <<job, jobs, handle, clk, ran, lastrun>>
    /\ UNCHANGED <<lnsVars, vtVars, perVars, medVars, emuVars>>

\* the loop of step() holds for the head of the heap
StepHeadClk == stepping /\ jobs # <<>> /\ job[jobs[1]].ticks <= clk

StepHead == stepping /\ jobs # <<>> /\ job[jobs[1]].ticks <= now

\* the jobs in a heap that are not cancelled
Waiting(J, heap) == {heap[i] : i \in {k \in 1..Len(heap) : ~J[heap[k]].cancelled}}

\* one iteration of step() on a cancelled job: popped, not run
StepSkip ==
    /\ StepHead
    /\ fault = ""
    /\ job[jobs[1]].cancelled
    /\ jobs' = HeapPop(job, jobs)
    /\ UNCHANGED <<job, handle, timers, stepping, clk, now, ran, lastrun>>
    /\ UNCHANGED <<lnsVars, vtVars, perVars, medVars, emuVars>>

\* one iteration of step() on a plain job: popped and run; its run() may do
\* nothing, schedule another job (re-entrant schedule; the new job records
\* the job that made it as its owner), cancel a job that is queued, or raise:
\* step() has no handler, the exception leaves it
StepRunUser ==
    /\ StepHead
    /\ fault = ""
    /\ ~job[jobs[1]].cancelled
    /\ job[jobs[1]].fn = "user"
    /\ LET j == jobs[1]
           popped == [RT EXCEPT !.jobs = HeapPop(job, jobs)]
       IN  /\ ran' = Append(ran, j)
           /\ lastrun' = [job |-> j, waiting |-> Waiting(job, popped.jobs)]
           /\ \/ SetRT(popped) /\ fault' = ""
              \/ /\ Len(job) < MaxJobs
                 /\ \E t \in 0..MaxTicks : SetRT(RtSchedule(popped, t, "user", j))
                 /\ fault' = ""
              \/ /\ \E i \in 1..Len(popped.jobs) : SetRT(JobCancel(popped, popped.jobs[i]))
                 /\ fault' = ""
              \/ SetRT(popped) /\ fault' = "Exception"
    /\ UNCHANGED <<clk, now>>
    /\ UNCHANGED <<msgs, pmsg, listeners, xm, xgrp, rx, rgrp, upframes, drv, epoch, rxn, trace>>
    /\ UNCHANGED <<lnsVars, vtVars, perVars, emuVars>>

\* the loop of step() has ended: stepping and handle are cleared, rewind()
StepEnd ==
    /\ stepping
    /\ fault = ""
    /\ ~StepHead
    /\ SetRT(Rewind([RT EXCEPT !.stepping = FALSE, !.handle = None]))
    /\ UNCHANGED <<clk, now, ran, lastrun>>
    /\ UNCHANGED <<lnsVars, vtVars, perVars, medVars, emuVars>>

RtNext ==
    \/ Tick
    \/ Schedule
    \/ Cancel
    \/ StepBegin
    \/ StepSkip
    \/ StepRunUser
    \/ StepEnd


\* ------------------------------------------------------------------------
\* LNS and DeviceTest: Joins, uplink verification, downlink building
LnsInit ==
    /\ sess = <<>>
    /\ sm = [dt  |-> [addr2sess |-> <<>>, eui2sess |-> <<>>],
             lns |-> [addr2sess |-> <<>>, eui2sess |-> <<>>]]
    /\ dtsession = None
    /\ lnsop = [op |-> "init"]
    /\ accnonce = [e \in DevEuis |-> None]

\* keyword arguments the callers pass on to LNS.join
JoinKeys   == {DefaultNwkKey}
JoinRxDlys == {0, 2}
JoinAddrs  == {None, 1}

\* DeviceTest.join for a received Join-Request and the caller's keyword
\* arguments (passed on to LNS.join): the old session is removed from the
\* SessionManager, LNS.join is called, its session is stored and added.
\* The Join-Accept downlink it then hands to DeviceTest.dn is modelled with
\* the gateway (GwSchedDn).
DtJoin ==
    /\ Len(sess) < MaxSess
    /\ \E pdu \in JReqPdus, pdevnonce \in DefaultPDevNonce..(MaxNonce - 1),
          nwkkey \in JoinKeys, rxdly \in JoinRxDlys :
        LET removed == IF dtsession # None THEN SmRemove(sm.dt, sess, dtsession) ELSE sm.dt
            r       == LnsJoin(pdu, pdevnonce, nwkkey, None, rxdly)
            s       == Len(sess) + 1
        IN  /\ lnsop' = [op |-> "DeviceTest.join", res |-> r.res, s |-> s,
                         deveui |-> pdu.DevEUI, nonce |-> pdu.DevNonce,
                         prev |-> accnonce[pdu.DevEUI], rxdly |-> rxdly]
            /\ IF r.res = "ok"
               THEN /\ sess' = Append(sess, r.session)
                    /\ dtsession' = s
                    /\ sm' = [sm EXCEPT !.dt = SmAdd(removed, sess', s)]
                    /\ accnonce' = [accnonce EXCEPT ![pdu.DevEUI] =
                                       IF pdu.DevNonce > @ THEN pdu.DevNonce ELSE @]
               ELSE /\ sm' = [sm EXCEPT !.dt = removed]
                    /\ UNCHANGED <<sess, dtsession, accnonce>>
    /\ UNCHANGED <<rtVars, vtVars, perVars, medVars, emuVars>>

\* a network server registers a device: LNS.join, then LNS().sm.add(session)
LnsRegister ==
    /\ Len(sess) < MaxSess
    /\ \E pdu \in JReqPdus, nwkkey \in JoinKeys, devaddr \in JoinAddrs :
        LET r == LnsJoin(pdu, DefaultPDevNonce, nwkkey, devaddr, 0)
            s == Len(sess) + 1
        IN  /\ r.res = "ok"
            /\ sess' = Append(sess, r.session)
            /\ sm' = [sm EXCEPT !.lns = SmAdd(sm.lns, sess', s)]
            /\ lnsop' = [op |-> "LNS.join", res |-> r.res, s |-> s]
    /\ UNCHANGED <<dtsession, accnonce, vtVars, perVars>>
    /\ UNCHANGED <<rtVars, medVars, emuVars>>

\* SessionManager.add(s) / SessionManager.remove(s) of the server's manager,
\* for a session created before
SmAddCall ==
    /\ \E s \in 1..Len(sess) :
        /\ sm' = [sm EXCEPT !.lns = SmAdd(sm.lns, sess, s)]
        /\ lnsop' = [op |-> "sm.add", s |-> s]
    /\ UNCHANGED <<sess, dtsession, accnonce, vtVars, perVars>>
    /\ UNCHANGED <<rtVars, medVars, emuVars>>

SmRemoveCall ==
    /\ \E s \in 1..Len(sess) :
        /\ sm' = [sm EXCEPT !.lns = SmRemove(sm.lns, sess, s)]
        /\ lnsop' = [op |-> "sm.remove", s |-> s]
    /\ UNCHANGED <<sess, dtsession, accnonce, vtVars, perVars>>
    /\ UNCHANGED <<rtVars, medVars, emuVars>>

\* DeviceTest.verify -> LNS.unpack(self.session, pdu)
DtVerify ==
    /\ dtsession # None
    /\ \E pdu \in UpPdus :
        LET r == LnsUnpack(sess[dtsession], pdu)
        IN  /\ sess' = [sess EXCEPT ![dtsession] = r.session]
            /\ lnsop' = [op |-> "unpack", res |-> r.res, s |-> dtsession,
                         devaddr |-> pdu.DevAddr, fcnt |-> pdu.FCnt,
                         old |-> sess[dtsession].fcntup]
    /\ UNCHANGED <<sm, dtsession, accnonce, vtVars, perVars>>
    /\ UNCHANGED <<rtVars, medVars, emuVars>>

\* LNS.try_unpack(pdu, devaddr) on the server's SessionManager
LnsTryUnpack ==
    /\ \E pdu \in UpPdus :
        LET cands == SmGetByAddr(sm.lns, pdu.DevAddr)
            s     == TryUnpackFrom(sess, cands, pdu)
        IN  lnsop' = [op |-> "try_unpack", res |-> IF s = 0 THEN "VerifyError" ELSE "ok",
                      s |-> s, devaddr |-> pdu.DevAddr, fcnt |-> pdu.FCnt,
                      mickey |-> pdu.mickey]
    /\ UNCHANGED <<sess, sm, dtsession, accnonce, vtVars, perVars>>
    /\ UNCHANGED <<rtVars, medVars, emuVars>>

\* fcntdn_adj values for which the downlink counter stays within the model's
\* range and the FCnt handed to lm.pack_dataframe is not negative
DlArgs(session) ==
    {adj \in (0 - MaxAdj)..MaxAdj :
        /\ session.fcntdn + adj >= 0
        /\ LnsDl(session, adj).fcntdn <= MaxFCntDn}

\* DeviceTest.dndf: builds the frame from self.session and advances fcntdn
\* (the frame then goes to DeviceTest.dn, modelled with the gateway)
DtDndf ==
    /\ dtsession # None
    /\ \E adj \in DlArgs(sess[dtsession]) :
        /\ sess' = [sess EXCEPT ![dtsession] = LnsDl(@, adj)]
        /\ lnsop' = [op |-> "dl", res |-> "ok", s |-> dtsession,
                     fcnt |-> DlFrame(sess[dtsession], adj, FALSE).FCnt,
                     adj |-> adj, old |-> sess[dtsession].fcntdn]
    /\ UNCHANGED <<sm, dtsession, accnonce, vtVars, perVars>>
    /\ UNCHANGED <<rtVars, medVars, emuVars>>

\* LNS.dl(session, ...) on a session of the server's SessionManager
LnsDlCall ==
    /\ \E i \in 1..Len(SmAll(sm.lns)) :
        LET s == SmAll(sm.lns)[i]
        IN  \E adj \in DlArgs(sess[s]) :
                /\ sess' = [sess EXCEPT ![s] = LnsDl(@, adj)]
                /\ lnsop' = [op |-> "dl", res |-> "ok", s |-> s,
                             fcnt |-> DlFrame(sess[s], adj, FALSE).FCnt,
                             adj |-> adj, old |-> sess[s].fcntdn]
    /\ UNCHANGED <<sm, dtsession, accnonce, vtVars, perVars>>
    /\ UNCHANGED <<rtVars, medVars, emuVars>>

LnsNext ==
    \/ DtJoin
    \/ LnsRegister
    \/ DtVerify
    \/ LnsTryUnpack
    \/ DtDndf
    \/ LnsDlCall

\* ------------------------------------------------------------------------
\* Medium, device radio and gateway
MaxMsgs == 2        \* LoraMsg objects created in one run
MaxRx   == 2        \* receive() calls on one Radio
MaxAbort == 1       \* msg_abort calls in one run
MaxGen  == 2        \* Radio objects created in one run (one more than the resets)

DefaultNPreamble == 8       \* LoraMsg.__init__: npreamble:int=8

RpsUp == MakeRps(7, 125000, 1, 1, 0, FALSE)
RpsDn == MakeRps(7, 125000, 1, 0, 0, TRUE)

\* what the firmware and the test scripts put on the air and listen for:
\* <<freq, rps>> of the device's uplinks, of the gateway's downlinks and of
\* the device's receive windows; the start of a receive window in ticks
\* from now and its length in symbols; PDU lengths and transmit powers
DevTxParams == {<<1, RpsUp>>, <<2, RpsUp>>, <<1, RpsDn>>}
GwTxParams  == {<<1, RpsDn>>, <<1, RpsUp>>}
DevRxParams == {<<1, RpsDn>>}

\* FSK: the bits of sf are zero; with and without the bit of a disabled CRC
RpsFsk      == MakeRps(0, 125000, 1, 1, 0, FALSE)
RpsFskNoCrc == RpsFsk + (1 - 0) * Pow2(7)
FskParams   == {<<1, RpsFsk>>, <<1, RpsFskNoCrc>>}
RxOffs      == {0, 672}
LateOffs    == {300}
RxMinSyms   == {5, 8}
PduLens     == {1}
XPows       == {14}

\* Regions, as far as the gateway reads them: the uplink channels and the
\* table of data rates (DRs[dr] is at position dr + 1). RegEU and RegUS are
\* the gateway's default regions; RegEUx is a copy of RegEU with one more
\* channel, as the certification test registers it; RegLo has a channel for
\* the low data rates only
ChDef(freq, minDR, maxDR) == [freq |-> freq, minDR |-> minDR, maxDR |-> maxDR]

DRsEU == <<<<12, 125000>>, <<11, 125000>>, <<10, 125000>>, <<9, 125000>>, <<8, 125000>>,
           <<7, 125000>>, <<7, 250000>>>>
DRsUS == <<<<10, 125000>>, <<9, 125000>>, <<8, 125000>>, <<7, 125000>>, <<8, 500000>>>>

RegEU  == [name |-> "EU868", DRs |-> DRsEU, upchannels |-> <<ChDef(1, 0, 5), ChDef(3, 0, 5)>>]
RegUS  == [name |-> "US915", DRs |-> DRsUS, upchannels |-> <<ChDef(4, 0, 3), ChDef(5, 4, 4)>>]
RegEUx == [RegEU EXCEPT !.upchannels = @ \o <<ChDef(6, 0, 5)>>]
RegLo  == [name |-> "LO", DRs |-> DRsEU, upchannels |-> <<ChDef(7, 0, 3)>>]

\* UniversalGateway.__init__: regions=[ld.EU868, ld.US915]
GwRegions == <<RegEU, RegUS>>

\* Region.to_dr(sf, bw).dr, for an (sf, bw) of the region's table
ToDr(r, sf, bw) == CHOOSE d \in 0..(Len(r.DRs) - 1) : r.DRs[d + 1] = <<sf, bw>>

\* sf and bw all modelled regions have a data rate for
SharedSfs == 7..10

\* the Radio the firmware talks to
Gen == Len(rx)

MedInit ==
    /\ msgs = <<>>
    /\ pmsg = {}
    /\ listeners = {0}
    /\ xm = [o \in 0..1 |-> None]
    /\ xgrp = [o \in 0..1 |-> JgNew]
    /\ rx = <<NewReceiver>>
    /\ rgrp = <<JgNew>>
    /\ upframes = <<>>
    /\ drv = <<"idle">>
    /\ epoch = 0
    /\ fault = ""
    /\ rxn = <<0>>
    /\ trace = <<[e |-> "add", l |-> 0]>>

\* Radio.svc_tx: the firmware transmits the frame in the register page, now
DevTx ==
    /\ ~stepping
    /\ fault = ""
    /\ drv[Gen] = "idle"
    /\ xm[Gen] = None
    /\ Len(msgs) < MaxMsgs
    /\ \E p \in DevTxParams, len \in PduLens, xpow \in XPows :
        SetWorld(Transmit([World EXCEPT !.drv[Gen] = "tx"], Gen,
                          NewLoraMsg(Ticks2Time(epoch, clk), len, p[1], p[2], xpow,
                                     DefaultNPreamble, Gen)))
    /\ UNCHANGED <<clk, now, ran, lastrun>>
    /\ UNCHANGED <<lnsVars, vtVars, perVars, emuRest>>

\* Radio.svc_rx: the firmware opens a receive window at the tick reg.xtime
DevRxOf(P, O) ==
    /\ drv[Gen] = "idle"
    /\ rxn[Gen] < MaxRx
    /\ \E p \in P, off \in O, minsyms \in RxMinSyms :
        SetWorld(Receive(Log([World EXCEPT !.drv[Gen] = "rx", !.rxn[Gen] = @ + 1],
                             [e |-> "rx", g |-> Gen, n |-> rxn[Gen] + 1]),
                         Gen, Ticks2Time(epoch, clk + off), p[1], p[2], minsyms))
    /\ UNCHANGED <<clk, now, ran, lastrun>>
    /\ UNCHANGED <<lnsVars, vtVars, perVars, emuRest>>

\* receive windows for LoRa downlinks, and for FSK downlinks
DevRx ==
    /\ ~stepping
    /\ fault = ""
    /\ DevRxOf(DevRxParams, RxOffs)

DevRxFsk ==
    /\ ~stepping
    /\ fault = ""
    /\ DevRxOf(FskParams, RxOffs)

\* a receive window that opens while a preamble sent now is in the air, too
\* late for the lock to fire before the payload starts
DevRxLate ==
    /\ ~stepping
    /\ fault = ""
    /\ DevRxOf(DevRxParams, LateOffs)

\* UniversalGateway.sched_dn(LoraMsg(...)), as DeviceTest.dn calls it: src
\* is set to the gateway, then the message goes to the gateway's transmitter
\* (which raises AssertionError, changing nothing, while it holds a message)
GwSchedDnOf(P) ==
    /\ Len(msgs) < MaxMsgs \/ xm[0] # None
    /\ \E p \in P, len \in PduLens, xpow \in XPows :
        SetWorld(Transmit(World, 0,
                          NewLoraMsg(Ticks2Time(epoch, clk), len, p[1], p[2], xpow,
                                     DefaultNPreamble, 0)))
    /\ UNCHANGED <<clk, now, ran, lastrun>>
    /\ UNCHANGED <<lnsVars, vtVars, perVars, emuRest>>

\* LoRa downlinks, and FSK downlinks
GwSchedDn ==
    /\ ~stepping
    /\ fault = ""
    /\ GwSchedDnOf(GwTxParams)

GwSchedFsk ==
    /\ ~stepping
    /\ fault = ""
    /\ GwSchedDnOf(FskParams)

\* UniversalGateway.sched_dn called by a test script that goes on after the
\* call has failed: the AssertionError of LoraMsgTransmitter.transmit is
\* raised to the caller of sched_dn, outside Runtime.step, so that the
\* Runtime's jobs run on. lnsop records the call, what it raised and the
\* message the transmitter held then.
GwSchedDnTry ==
    /\ ~stepping
    /\ fault = ""
    /\ Len(msgs) < MaxMsgs \/ xm[0] # None
    /\ \E p \in GwTxParams, len \in PduLens, xpow \in XPows :
        LET W == Transmit(World, 0,
                          NewLoraMsg(Ticks2Time(epoch, clk), len, p[1], p[2], xpow,
                                     DefaultNPreamble, 0))
        IN  /\ SetWorld([W EXCEPT !.exc = ""])
            /\ lnsop' = [op |-> "sched_dn", res |-> W.exc, held |-> xm[0]]
    /\ UNCHANGED <<clk, now, ran, lastrun>>
    /\ UNCHANGED <<sess, sm, dtsession, accnonce, vtVars, perVars, emuRest>>

\* the frames a Medium may hand to the gateway: built by LoraMsg(time, pdu,
\* freq, rps, xpow=..., rssi=..., snr=..., src=...), by the gateway itself
\* (src 0), by a Radio (src 1) or by another party (src None)
GwFrames ==
    {[NewLoraMsg(0, len, p[1], p[2], xpow, DefaultNPreamble, src)
         EXCEPT !.rssi = rssi, !.snr = snr] :
        len \in PduLens, p \in GwTxParams, xpow \in XPows \cup {None},
        src \in {0, 1, None}, rssi \in {None, 0 - 40}, snr \in {None, 5}}

\* UniversalGateway.msg_complete(msg), as a Medium calls it for a frame;
\* lnsop records the frame as it was when the call was made
GwMsgComplete ==
    /\ ~stepping
    /\ fault = ""
    /\ Len(msgs) < MaxMsgs
    /\ \E f \in GwFrames :
        /\ SetWorld(GwComplete([World EXCEPT !.msgs = Append(@, f)], Len(msgs) + 1))
        /\ lnsop' = [op |-> "msg_complete", frame |-> f]
    /\ UNCHANGED <<clk, now, ran, lastrun>>
    /\ UNCHANGED <<sess, sm, dtsession, accnonce, vtVars, perVars, emuRest>>

\* SimpleMedium.msg_abort(m) called for a message whose preamble is in the
\* air (MaxAbort times in one run)
MsgAbort ==
    /\ ~stepping
    /\ fault = ""
    /\ Cardinality({k \in 1..Len(trace) : trace[k].e = "phase" /\ trace[k].ph = "abt"}) < MaxAbort
    /\ \E m \in pmsg :
        /\ \E lord \in Orders(listeners) : SetWorld(MedAbort(World, m, lord))
    /\ UNCHANGED <<clk, now, ran, lastrun>>
    /\ UNCHANGED <<lnsVars, vtVars, perVars, emuRest>>

\* a channel of a region fits a frame
ChFits(ch, freq, dr) == freq = ch.freq /\ dr >= ch.minDR /\ dr <= ch.maxDR

\* getupparams, inner loop: the index of the first channel from position i
\* on that fits, None if there is none
RECURSIVE ChFind(_, _, _, _)
ChFind(chs, i, freq, dr) ==
    IF i > Len(chs) THEN None
    ELSE IF ChFits(chs[i], freq, dr) THEN i - 1
    ELSE ChFind(chs, i + 1, freq, dr)

\* getupparams, outer loop from region i on (a region is referred to by its
\* position in the list)
RECURSIVE UpParamsFrom(_, _, _, _)
UpParamsFrom(regs, i, freq, rps) ==
    IF i > Len(regs) THEN [exc |-> "ValueError"]
    ELSE LET dr == ToDr(regs[i], GetSfBw(rps)[1], GetSfBw(rps)[2])
             ch == ChFind(regs[i].upchannels, 1, freq, dr)
         IN  IF ch # None THEN [exc |-> "", reg |-> i, ch |-> ch, dr |-> dr]
             ELSE UpParamsFrom(regs, i + 1, freq, rps)

\* UniversalGateway.getupparams: the outcome for a frame
GetUpParams(msg) ==
    IF UpParamsFrom(GwRegions, 1, msg.freq, msg.rps).exc = "" THEN "LoraWanMsg" ELSE "ValueError"

\* the region lists a gateway is given or is left with after a test has
\* appended a region, and the frequencies of the frames
RegionLists == {<<RegEU, RegUS>>, <<RegEU, RegUS, RegEUx>>, <<RegUS, RegEU>>, <<RegEUx>>,
                <<RegUS>>, <<RegLo, RegUS>>}
FrameFreqs  == 1..7

\* getupparams for a frame with the given frequency and rps
GwUpParams ==
    /\ \E regs \in RegionLists, freq \in FrameFreqs, sf \in SharedSfs :
          LET rps == MakeRps(sf, 125000, 1, 1, 0, FALSE)
          IN  lnsop' = [op |-> "getupparams", regs |-> regs, freq |-> freq, rps |-> rps,
                        res |-> UpParamsFrom(regs, 1, freq, rps)]
    /\ UNCHANGED <<sess, sm, dtsession, accnonce, vtVars, perVars>>
    /\ UNCHANGED <<rtVars, medVars, emuVars>>

\* UniversalGateway.next_up, once a frame is in the queue
GwNextUp ==
    /\ ~stepping
    /\ fault = ""
    /\ upframes # <<>>
    /\ LET r == QueueGet(upframes)
       IN  /\ upframes' = r.rest
           /\ trace' = Append(trace, [e |-> "up", m |-> r.item, res |-> GetUpParams(msgs[r.item])])
    /\ UNCHANGED <<msgs, pmsg, listeners, xm, xgrp, rx, rgrp, drv, epoch, fault, rxn>>
    /\ UNCHANGED <<rtVars, lnsVars, vtVars, perVars, emuVars>>

\* the host loop reaches the time the timer is armed for and calls
\* Runtime.step: now is read, stepping is set
Fire ==
    /\ ~stepping
    /\ fault = ""
    /\ timers # <<>>
    /\ \A i \in 1..Len(timers) : timers[1] <= timers[i]
    /\ timers' = Tail(timers)
    /\ clk' = Max(clk, timers[1])
    /\ now' = clk'
    /\ stepping' = TRUE
    /\ UNCHANGED <<job, jobs, handle, ran, lastrun>>
    /\ UNCHANGED <<lnsVars, vtVars, perVars, medVars, emuVars>>

\* one iteration of step() on a job of a JobGroup that is not cancelled
StepJob(fn) ==
    /\ StepHead
    /\ fault = ""
    /\ ~job[jobs[1]].cancelled
    /\ job[jobs[1]].fn = fn

\* the state once the job at the head is popped
Popped == [World EXCEPT !.jobs = HeapPop(job, jobs)]

RunTxStart ==
    /\ StepJob("txstart")
    /\ \E lord \in Orders(listeners) :
        LET W == XPrerun(Popped, job[jobs[1]].own, jobs[1])
        IN  SetWorld(IF W.exc # "" THEN W ELSE TxStart(W, job[jobs[1]].own, lord))
    /\ UNCHANGED <<clk, now, ran, lastrun>>
    /\ UNCHANGED <<lnsVars, vtVars, perVars, emuRest>>

RunTxPayload ==
    /\ StepJob("txpayload")
    /\ \E lord \in Orders(listeners) :
        LET W == XPrerun(Popped, job[jobs[1]].own, jobs[1])
        IN  SetWorld(IF W.exc # "" THEN W ELSE TxPayload(W, job[jobs[1]].own, lord))
    /\ UNCHANGED <<clk, now, ran, lastrun>>
    /\ UNCHANGED <<lnsVars, vtVars, perVars, emuRest>>

RunTxDone ==
    /\ StepJob("txdone")
    /\ \E lord \in Orders(listeners) :
        LET W == XPrerun(Popped, job[jobs[1]].own, jobs[1])
        IN  SetWorld(IF W.exc # "" THEN W ELSE TxDone(W, job[jobs[1]].own, lord))
    /\ UNCHANGED <<clk, now, ran, lastrun>>
    /\ UNCHANGED <<lnsVars, vtVars, perVars, emuRest>>

RunRxStart ==
    /\ StepJob("rxstart")
    /\ \E mord \in Orders(pmsg) :
        LET W == RPrerun(Popped, job[jobs[1]].own, jobs[1])
        IN  SetWorld(IF W.exc # "" THEN W ELSE RxStart(W, job[jobs[1]].own, mord))
    /\ UNCHANGED <<clk, now, ran, lastrun>>
    /\ UNCHANGED <<lnsVars, vtVars, perVars, emuRest>>

RunTimeout ==
    /\ StepJob("timeout")
    /\ LET W == RPrerun(Popped, job[jobs[1]].own, jobs[1])
       IN  SetWorld(IF W.exc # "" THEN W ELSE Timeout(W, job[jobs[1]].own))
    /\ UNCHANGED <<clk, now, ran, lastrun>>
    /\ UNCHANGED <<lnsVars, vtVars, perVars, emuRest>>

RunMsgLock ==
    /\ StepJob("msg_lock")
    /\ LET W == RPrerun(Popped, job[jobs[1]].own, jobs[1])
       IN  SetWorld(IF W.exc # "" THEN W ELSE MsgLock(W, job[jobs[1]].own))
    /\ UNCHANGED <<clk, now, ran, lastrun>>
    /\ UNCHANGED <<lnsVars, vtVars, perVars, emuRest>>

\* Simulation.reset (SVC RESET, or the start of a run): Runtime.reset()
\* empties the scheduler, the peripherals are dropped, pc, SP and LR are set
\* from the image, and the firmware's start-up registers an NVIC, a Timer (a
\* new epoch: the ticks restart at 0) and a Radio
SimReset ==
    /\ ~stepping
    /\ fault = ""
    /\ Gen < MaxGen
    /\ GuestRuns
    /\ pc' = EntryPoint
    /\ lr' = ResetLR
    /\ gstack' = <<>>
    /\ running' = TRUE
    /\ nvic' = TRUE
    /\ reqs' = {}
    /\ cprio' = <<0 - 1>>
    /\ dloop' = "emu"
    /\ blocked' = FALSE
    /\ epc' = ThumbAddr(EntryPoint)
    /\ frames' = <<>>
    /\ gop' = "reset"
    /\ UNCHANGED <<ex, iret>>
    /\ jobs' = RuntimeReset(RT).jobs
    /\ handle' = RuntimeReset(RT).handle
    /\ timers' = RuntimeReset(RT).timers
    /\ epoch' = Ticks2Time(epoch, clk)
    /\ clk' = 0
    /\ xm' = [o \in 0..(Gen + 1) |-> IF o <= Gen THEN xm[o] ELSE None]
    /\ xgrp' = [o \in 0..(Gen + 1) |-> IF o <= Gen THEN xgrp[o] ELSE JgNew]
    /\ rx' = Append(rx, NewReceiver)
    /\ rgrp' = Append(rgrp, JgNew)
    /\ drv' = Append(drv, "idle")
    /\ rxn' = Append(rxn, 0)
    /\ trace' = Append(trace, [e |-> "reset"])
    /\ UNCHANGED <<job, stepping, now, ran, lastrun>>
    /\ UNCHANGED <<msgs, pmsg, listeners, upframes, fault>>
    /\ UNCHANGED <<lnsVars, vtVars, perVars>>

MedNext ==
    \/ DevTx
    \/ DevRx
    \/ GwSchedDn
    \/ GwNextUp
    \/ Fire
    \/ StepSkip
    \/ RunTxStart
    \/ RunTxPayload
    \/ RunTxDone
    \/ RunRxStart
    \/ RunTimeout
    \/ RunMsgLock
    \/ StepEnd

\* downlinks that are aborted in the air: the gateway transmits, the
\* firmware only opens receive windows
AbortNext ==
    \/ DevRx
    \/ GwSchedDn
    \/ MsgAbort
    \/ Fire
    \/ StepSkip
    \/ RunTxStart
    \/ RunTxPayload
    \/ RunTxDone
    \/ RunRxStart
    \/ RunTimeout
    \/ RunMsgLock
    \/ StepEnd

\* downlinks and receive windows, those that open late included
LockNext ==
    \/ DevRx
    \/ DevRxLate
    \/ GwSchedDn
    \/ Fire
    \/ StepSkip
    \/ RunTxStart
    \/ RunTxPayload
    \/ RunTxDone
    \/ RunRxStart
    \/ RunTimeout
    \/ RunMsgLock
    \/ StepEnd

\* ------------------------------------------------------------------------
\* DeviceTest.up, DeviceTest.join and DeviceTest.dn with the gateway
MaxDtMsgs == 4              \* LoraMsg objects of a run of a test script
MaxDtSess == 1              \* sessions of such a run
MaxTime   == 2140000000     \* latest end of a message, in units of time

\* ld.JaccRxDelay, the delay of the first receive window after a
\* Join-Request, in seconds. The library that defines it is not part of the
\* sources; the model's value differs from the rx1delay of a session joined
\* with rxdly = 2
JaccRxDelay == 1

Min(a, b) == IF a <= b THEN a ELSE b

\* The data of a ld.Region that dn, dn_rx1 and dn_rx2 read: RX2DR, RX2Freq,
\* max_eirp, get_dnfreq(upfreq) and get_dndr(updr, rx1droff). They belong to
\* the library too: a region of the EU kind answers on the uplink's frequency
\* and lowers the data rate by the offset, one of the US kind answers on
\* frequencies and data rates of its own
RegRX2DR(r)   == IF r.name = "US915" THEN 4 ELSE 0
RegRX2Freq(r) == IF r.name = "US915" THEN 8 ELSE 9
RegMaxEirp(r) == IF r.name = "US915" THEN 30 ELSE 16
RegDnFreq(r, upfreq) == IF r.name = "US915" THEN 10 + (upfreq % 2) ELSE upfreq
RegDnDr(r, updr, rx1droff) ==
    IF r.name = "US915" THEN Max(Min(updr + 2, 4) - rx1droff, 0)
    ELSE Max(updr - rx1droff, 0)

\* lm.DLSettings.pack and lm.DLSettings.unpack: RX2DR in bits 0-3, RX1DRoff
\* in bits 4-6, OptNeg in bit 7
DlPack(rx1droff, rx2dr, optneg) ==
    (rx2dr % 16) + (rx1droff % 8) * 16 + (IF optneg THEN 128 ELSE 0)
DlUnpack(dlset) == <<(dlset \div 16) % 8, dlset % 16, dlset >= 128>>

\* LNS.join with the region and dlset: the session has the fields of the
\* receive windows too
LnsJoinDl(pdu, region, pdevnonce, nwkkey, devaddr, dlset, rxdly) ==
    LET r  == LnsJoin(pdu, pdevnonce, nwkkey, devaddr, rxdly)
        ds == DlUnpack(IF dlset = None THEN DlPack(0, RegRX2DR(region), FALSE) ELSE dlset)
    IN  IF r.res # "ok" THEN r
        ELSE [res |-> "ok",
              session |-> r.session @@ [rx1droff |-> ds[1],
                                        rx2dr    |-> ds[2],
                                        rx2freq  |-> RegRX2Freq(region),
                                        region   |-> region]]

\* LNS.rps2dr and LNS.dndr2rps
LnsRps2Dr(region, rps) == ToDr(region, GetSfBw(rps)[1], GetSfBw(rps)[2])
LnsDndr2Rps(region, dr) ==
    MakeRps(region.DRs[dr + 1][1], region.DRs[dr + 1][2], 1, 0, 0, TRUE)

\* LNS.dn_rx1 and LNS.dn_rx2: <<freq, rps>>
LnsDnRx1(session, upfreq, uprps, join) ==
    LET region   == session.region
        rx1droff == IF join THEN 0 ELSE session.rx1droff
    IN  <<RegDnFreq(region, upfreq),
          LnsDndr2Rps(region, RegDnDr(region, LnsRps2Dr(region, uprps), rx1droff))>>

LnsDnRx2(session, join) ==
    LET region  == session.region
        rx2dr   == IF join THEN RegRX2DR(region) ELSE session.rx2dr
        rx2freq == IF join THEN RegRX2Freq(region) ELSE session.rx2freq
    IN  <<rx2freq, LnsDndr2Rps(region, rx2dr)>>

\* variant: the second window opens with the delay of the first
DtRxDelaySame(session, rx1delay, rx2) ==
    IF rx1delay # 0 THEN rx1delay ELSE session.rx1delay

\* DeviceTest.dn, rxdelay
DtRxDelay(session, rx1delay, rx2) ==
    (IF rx1delay # 0 THEN rx1delay ELSE session.rx1delay) + (IF rx2 THEN 1 ELSE 0)

\* DeviceTest.dn: the LoraMsg it creates for the uplink up received in the
\* region upreg
DtDnMsg(session, up, upreg, len, rx2, rx1delay, xpow, toff, freq, join) ==
    LET fr == IF rx2 THEN LnsDnRx2(session, join)
              ELSE LnsDnRx1(session, up.freq, up.rps, join)
    IN  NewLoraMsg(up.xend + DtRxDelay(session, rx1delay, rx2) * UnitsPerSec + toff,
                   len,
                   IF freq = None THEN fr[1] ELSE freq,
                   fr[2],
                   IF xpow = None THEN RegMaxEirp(upreg) ELSE xpow,
                   DefaultNPreamble, 0)

\* the message of dn ends within the time of the model
DtFits(session, up, len, rx2, rx1delay, toff, join) ==
    LET rps == (IF rx2 THEN LnsDnRx2(session, join)
                ELSE LnsDnRx1(session, up.freq, up.rps, join))[2]
        at  == AirTimes(rps, len, DefaultNPreamble, DefaultDro(rps))
    IN  /\ DtRxDelay(session, rx1delay, rx2) <= 4
        /\ up.xend >= 0
        /\ DtRxDelay(session, rx1delay, rx2) * UnitsPerSec
               <= MaxTime - up.xend - toff - at[1] - at[2]

\* the uplinks of a device: <<freq, rps>> of a channel of EU868 and of one
\* of US915
DtUpParams == {<<1, MakeRps(7, 125000, 1, 1, 0, FALSE)>>, <<4, MakeRps(9, 125000, 1, 1, 0, FALSE)>>}

\* an uplink of a device ends now: the Medium calls the gateway's
\* msg_complete for it (a device sends its next uplink after the downlink
\* to the one before)
DtUpFrame ==
    /\ ~stepping
    /\ fault = ""
    /\ Len(msgs) < MaxDtMsgs - 1
    /\ upframes = <<>>
    /\ xm[0] = None
    /\ \E p \in DtUpParams, len \in PduLens :
        LET at == AirTimes(p[2], len, DefaultNPreamble, DefaultDro(p[2]))
            f  == NewLoraMsg(Ticks2Time(epoch, clk) - at[1] - at[2], len, p[1], p[2], 14,
                             DefaultNPreamble, 1)
        IN  SetWorld(GwComplete([World EXCEPT !.msgs = Append(@, f)], Len(msgs) + 1))
    /\ UNCHANGED <<clk, now, ran, lastrun>>
    /\ UNCHANGED <<lnsVars, vtVars, perVars, emuRest>>

\* the LoraWanMsg the last DeviceTest.up has returned: the index of its
\* LoraMsg, None if there is none yet
LastUp ==
    LET ks == {k \in 1..Len(trace) : trace[k].e = "up" /\ trace[k].res = "LoraWanMsg"}
    IN  IF ks = {} THEN None ELSE trace[CHOOSE k \in ks : \A j \in ks : j <= k].m

\* the keyword arguments of the scripts
DtRx1Delays == {0, 1}
DtToffs     == {10240, 0 - 10240}
DtFreqs     == {None, 6}
DtJoinRx1Delays == {None, 0, 2}
DtJoinDlsets    == {None, DlPack(1, 3, FALSE)}
\* region=...: a sequence with the region, empty if the argument is left out
DtJoinRegions   == {<<>>, <<RegEUx>>}
DtJReqPdus      == {j \in JReqPdus : j.DevNonce = 0 /\ j.DevEUI = 1}

\* DeviceTest.dn(uplwm, pdu, rx2=..., rx1delay=..., toff=..., freq=...) for
\* the uplink the script has got from up. An exception of sched_dn is raised
\* to the script. lnsop records the call. A script answers an uplink once:
\* the uplink is the latest message.
DtDn ==
    /\ ~stepping
    /\ fault = ""
    /\ LastUp # None
    /\ LastUp = Len(msgs)
    /\ Len(msgs) < MaxDtMsgs
    /\ \E len \in PduLens, rx2 \in BOOLEAN, rx1delay \in DtRx1Delays, toff \in DtToffs,
          freq \in DtFreqs :
        LET up  == msgs[LastUp]
            reg == GwRegions[UpParamsFrom(GwRegions, 1, up.freq, up.rps).reg]
        IN  IF dtsession = None
            THEN /\ lnsop' = [op |-> "dn", res |-> "AssertionError", up |-> LastUp]
                 /\ UNCHANGED <<rtVars, medVars, reqs, running>>
            ELSE /\ DtFits(sess[dtsession], up, len, rx2, rx1delay, toff, FALSE)
                 /\ LET W == Transmit(World, 0,
                                      DtDnMsg(sess[dtsession], up, reg, len, rx2, rx1delay,
                                              None, toff, freq, FALSE))
                    IN  /\ SetWorld([W EXCEPT !.exc = ""])
                        /\ lnsop' = [op |-> "dn", res |-> W.exc, up |-> LastUp,
                                     s |-> dtsession, rx2 |-> rx2, rx1delay |-> rx1delay,
                                     toff |-> toff, freq |-> freq, join |-> FALSE,
                                     reg |-> reg.name]
                 /\ UNCHANGED <<clk, now, ran, lastrun>>
    /\ UNCHANGED <<sess, sm, dtsession, accnonce, vtVars, perVars, emuRest>>

\* DeviceTest.join(rx2=..., rx1delay=..., toff=..., rxdly=..., dlset=...,
\* region=...): up (UniversalGateway.next_up), the check of the region, the
\* removal of the old session, LNS.join, sm.add, then dn with join=True and
\* the default of rx1delay. pdu is the Join-Request the frame carries. An
\* exception ends the call where it is raised.
DtJoinDn ==
    /\ ~stepping
    /\ fault = ""
    /\ upframes # <<>>
    /\ Len(msgs) < MaxDtMsgs
    /\ Len(sess) < MaxDtSess
    /\ \E pdu \in DtJReqPdus, len \in PduLens, rx2 \in BOOLEAN, rx1delay \in DtJoinRx1Delays,
          rxdly \in JoinRxDlys, dlset \in DtJoinDlsets, regarg \in DtJoinRegions :
        LET q       == QueueGet(upframes)
            up      == msgs[q.item]
            par     == UpParamsFrom(GwRegions, 1, up.freq, up.rps)
            W1      == Log([World EXCEPT !.upframes = q.rest],
                           [e |-> "up", m |-> q.item, res |-> GetUpParams(up)])
            upreg   == GwRegions[par.reg]
            region  == IF regarg = <<>> THEN upreg ELSE regarg[1]
            removed == IF dtsession # None THEN SmRemove(sm.dt, sess, dtsession) ELSE sm.dt
            r       == LnsJoinDl(pdu, region, DefaultPDevNonce, DefaultNwkKey, None, dlset, rxdly)
            s       == Len(sess) + 1
            rx1     == IF rx1delay = None THEN JaccRxDelay ELSE rx1delay
            rec     == [op |-> "join", up |-> q.item, s |-> s, rx2 |-> rx2,
                        rx1delay |-> rx1delay, toff |-> 0, freq |-> None, join |-> TRUE,
                        reg |-> region.name]
        IN  /\ IF par.exc # ""
               THEN /\ SetWorld(W1)
                    /\ lnsop' = [res |-> "ValueError"] @@ rec
                    /\ UNCHANGED <<sess, sm, dtsession, accnonce>>
               ELSE IF regarg # <<>> /\ regarg[1].name # upreg.name
               THEN /\ SetWorld(W1)
                    /\ lnsop' = [res |-> "ValueError"] @@ rec
                    /\ UNCHANGED <<sess, sm, dtsession, accnonce>>
               ELSE IF r.res # "ok"
               THEN /\ SetWorld(W1)
                    /\ lnsop' = [res |-> r.res] @@ rec
                    /\ sm' = [sm EXCEPT !.dt = removed]
                    /\ UNCHANGED <<sess, dtsession, accnonce>>
               ELSE /\ DtFits(r.session, up, len, rx2, rx1, 0, TRUE)
                    /\ LET W == Transmit(W1, 0,
                                         DtDnMsg(r.session, up, upreg, len, rx2, rx1, None, 0,
                                                 None, TRUE))
                       IN  /\ SetWorld([W EXCEPT !.exc = ""])
                           /\ lnsop' = [res |-> W.exc] @@ rec
                    /\ sess' = Append(sess, r.session)
                    /\ dtsession' = s
                    /\ sm' = [sm EXCEPT !.dt = SmAdd(removed, sess', s)]
                    /\ accnonce' = [accnonce EXCEPT ![pdu.DevEUI] =
                                       IF pdu.DevNonce > @ THEN pdu.DevNonce ELSE @]
    /\ UNCHANGED <<clk, now, ran, lastrun>>
    /\ UNCHANGED <<vtVars, perVars, emuRest>>

\* a test script with its device: uplinks, join, up, dn, and the Runtime
DtNext ==
    \/ DtUpFrame
    \/ GwNextUp
    \/ DtJoinDn
    \/ DtDn
    \/ Fire
    \/ RunTxStart
    \/ RunTxPayload
    \/ RunTxDone
    \/ StepEnd

\* downlinks of a script that survives a failed sched_dn
DnNext ==
    \/ GwSchedDnTry
    \/ Fire
    \/ RunTxStart
    \/ RunTxPayload
    \/ RunTxDone
    \/ StepEnd

\* the gateway's msg_complete, applied to frames, and its queue read
GwcNext ==
    \/ GwMsgComplete
    \/ GwNextUp

\* FSK downlinks and FSK receive windows
FskNext ==
    \/ DevRxFsk
    \/ GwSchedFsk
    \/ Fire
    \/ StepSkip
    \/ RunTxStart
    \/ RunTxPayload
    \/ RunTxDone
    \/ RunRxStart
    \/ RunTimeout
    \/ RunMsgLock
    \/ StepEnd

\* transmissions and resets only: the firmware opens no receive window and
\* the test script leaves the uplink queue alone
TxResetNext ==
    \/ DevTx
    \/ GwSchedDn
    \/ Fire
    \/ RunTxStart
    \/ RunTxPayload
    \/ RunTxDone
    \/ StepEnd
    \/ SimReset

\* ------------------------------------------------------------------------
\* Calls of the codec functions, with their arguments and results recorded
Sfs == 7..12
Bws == {125000, 250000, 500000}
IhValues == {0, 1, 2, 255}

\* Rps.makeRps(sf, bw, cr, crc, ih, iqinv=...)
RpsMake ==
    \E sf \in Sfs, bw \in Bws, cr \in 1..4, crc \in 0..1, ih \in 0..1, iqinv \in BOOLEAN :
        /\ lnsop' = [op |-> "makeRps", sf |-> sf, bw |-> bw, cr |-> cr, crc |-> crc,
                     ih |-> ih, rps |-> MakeRps(sf, bw, cr, crc, ih, iqinv)]
        /\ UNCHANGED <<sess, sm, dtsession, accnonce, vtVars, perVars>>
        /\ UNCHANGED <<rtVars, medVars, emuVars>>

\* Rps.validate(rps): every value of bits 0..7, the values IhValues in bits
\* 8..15, with and without the IQINV extension
RpsValidate ==
    \E lo \in 0..255, ih \in IhValues, iqinv \in 0..1 :
        LET rps == lo + ih * 256 + iqinv * IQINV
        IN  /\ lnsop' = [op |-> "validate", rps |-> rps, res |-> Validate(rps)]
            /\ UNCHANGED <<sess, sm, dtsession, accnonce, vtVars, perVars>>
            /\ UNCHANGED <<rtVars, medVars, emuVars>>

\* LoraMsg(time, pdu, freq, rps, dro=..., npreamble=...) of simul/medium.py or
\* of nsimul/medium.py; long PDUs at the lower spreading factors only
AirRps ==
    {MakeRps(sf, bw, cr, f[1], f[2], FALSE) :
        sf \in {0, 7, 11, 12}, bw \in Bws, cr \in {1, 4}, f \in {<<1, 0>>, <<0, 1>>}}
    \cup {RpsFskNoCrc, 7}
AirLens(rps) == IF GetSf(rps) <= 9 THEN {0, 51, 255} ELSE {0, 51}

MsgNew ==
    \E impl \in {"simul", "nsimul"}, t \in {UnitsPerTick}, rps \in AirRps,
       npreamble \in {6, 8}, droarg \in {None, 0, 1} :
        \E len \in AirLens(rps) :
            /\ lnsop' = [op |-> "LoraMsg", impl |-> impl, rps |-> rps, len |-> len,
                         npreamble |-> npreamble, droarg |-> droarg,
                         msg |-> LoraMsgInit(impl, t, len, rps, npreamble, droarg)]
            /\ UNCHANGED <<sess, sm, dtsession, accnonce, vtVars, perVars>>
            /\ UNCHANGED <<rtVars, medVars, emuVars>>

\* ------------------------------------------------------------------------
\* VirtualTimeLoop (unicorn/nsimul/vtimeloop.py)
MaxHandles == 4
MaxWhen == 3
MaxDelay == 2

\* VirtualTimeLoop.__init__
VtInit ==
    /\ vth = <<>>
    /\ vtasks = <<>>
    /\ vtime = 0
    /\ vtop = [op |-> "", h |-> 0, before |-> 0]

\* TimerHandle.__lt__: handles compare by their when
ThKeys(H) == [i \in DOMAIN H |-> [ticks |-> H[i].when]]

\* VirtualTimeLoop.call_at(when, callback): a new TimerHandle is pushed onto
\* the heap, whatever its when
VtPush(op, when) ==
    LET id == Len(vth) + 1
        H  == Append(vth, [when |-> when, cancelled |-> FALSE])
    IN  /\ vth' = H
        /\ vtasks' = HeapPush(ThKeys(H), vtasks, id)
        /\ vtop' = [op |-> op, h |-> id, before |-> vtime]
        /\ UNCHANGED vtime
        /\ UNCHANGED <<rtVars, lnsVars, perVars, medVars, emuVars>>

VtCallAt ==
    /\ Len(vth) < MaxHandles
    /\ \E when \in 0..MaxWhen : VtPush("call_at", when)

\* VirtualTimeLoop.call_later(delay, callback) is call_at(self._time + delay, ...)
VtCallLater ==
    /\ Len(vth) < MaxHandles
    /\ \E delay \in 1..MaxDelay : VtPush("call_later", vtime + delay)

\* VirtualTimeLoop.call_soon(callback) is call_later(0, ...)
VtCallSoon ==
    /\ Len(vth) < MaxHandles
    /\ VtPush("call_soon", vtime + 0)

\* TimerHandle.cancel: the handle stays in the heap
\* (VirtualTimeLoop._timer_handle_cancelled does nothing)
VtCancel ==
    \E h \in DOMAIN vth :
        /\ ~vth[h].cancelled
        /\ vth' = [vth EXCEPT ![h].cancelled = TRUE]
        /\ vtop' = [op |-> "cancel", h |-> h, before |-> vtime]
        /\ UNCHANGED <<vtasks, vtime>>
        /\ UNCHANGED <<rtVars, lnsVars, perVars, medVars, emuVars>>

\* VirtualTimeLoop._run, one turn of its loop: the head of the heap is popped,
\* _time becomes its when, and it is run unless it was cancelled
VtRun ==
    /\ vtasks # <<>>
    /\ LET th == vtasks[1]
       IN  /\ vtasks' = HeapPop(ThKeys(vth), vtasks)
           /\ vtime' = vth[th].when
           /\ vtop' = [op |-> IF vth[th].cancelled THEN "skip" ELSE "run",
                       h |-> th, before |-> vtime]
    /\ UNCHANGED vth
    /\ UNCHANGED <<rtVars, lnsVars, perVars, medVars, emuVars>>

\* a SessionManager and its callers
SmNext ==
    \/ LnsRegister
    \/ SmAddCall
    \/ SmRemoveCall

\* the functions of the gateway and of the message codec, applied to inputs
CodecNext ==
    \/ GwUpParams
    \/ RpsMake
    \/ RpsValidate

\* the constructor of LoraMsg, applied to inputs
AirNext ==
    \/ MsgNew

\* the FastUART between the firmware and a host task calling recv()
UartNext ==
    \/ UartSvcSend
    \/ UartRecv
    \/ UartRecvReturn
    \/ UartRecvTimeout

\* the GPIO between the firmware and a test script
GpioNext ==
    \/ GpioWrite
    \/ GpioAck
    \/ GpioSvc
    \/ GpioDrive
    \/ GpioExtConfig

\* the guest's supervisor calls, the driver loop and a script looking up
\* peripherals
SvcNext ==
    \/ SvcCall
    \/ RunStart
    \/ GetPeripheral
    \/ DriverWake
    \/ TimerAlarm

\* the virtual-time loop and the callers of its timer functions
VtNext ==
    \/ VtCallAt
    \/ VtCallLater
    \/ VtCallSoon
    \/ VtCancel
    \/ VtRun

\* the emulator with its guest and the peripherals' interrupt lines
EmuNext ==
    \/ DriverWake
    \/ EmuFault
    \/ GuestWfi
    \/ GuestSvcIrq
    \/ GuestClearIrq
    \/ GuestSetIrq
    \/ GuestPanic
    \/ HandlerReturn
    \/ IrqReturn
    \/ ExtIrq
    \/ TimerAlarm
    \/ SimReset

\* ------------------------------------------------------------------------
\* Specifications: one per component, over the same state
vars == <<rtVars, lnsVars, vtVars, perVars, medVars, emuVars>>

Init == RtInit /\ LnsInit /\ VtInit /\ PerInit /\ MedInit /\ EmuInit

SpecRT == Init /\ [][RtNext]_vars

\* the Runtime under a host loop that fires the timers it holds once they are
\* due and a clock that keeps advancing; a step() that was entered goes on
SpecRTLive ==
    /\ Init /\ [][RtNext]_vars
    /\ WF_vars(Tick) /\ WF_vars(StepBegin)
    /\ WF_vars(StepSkip) /\ WF_vars(StepRunUser) /\ WF_vars(StepEnd)

SpecLNS == Init /\ [][LnsNext]_vars

SpecMedium == Init /\ [][MedNext]_vars

SpecTxReset == Init /\ [][TxResetNext]_vars

SpecAbort == Init /\ [][AbortNext]_vars

SpecFsk == Init /\ [][FskNext]_vars

SpecLock == Init /\ [][LockNext]_vars

SpecEmu == Init /\ [][EmuNext]_vars

SpecDn == Init /\ [][DnNext]_vars

SpecUart == Init /\ [][UartNext]_vars

SpecGwc == Init /\ [][GwcNext]_vars

SpecDt == Init /\ [][DtNext]_vars

SpecGpio == Init /\ [][GpioNext]_vars

SpecSvc == Init /\ [][SvcNext]_vars

SpecCodec == Init /\ [][CodecNext]_vars

SpecSm == Init /\ [][SmNext]_vars

SpecVt == Init /\ [][VtNext]_vars

SpecAir == Init /\ [][AirNext]_vars

\* ------------------------------------------------------------------------
\* C1: whenever a job is run, every job still waiting in the heap (scheduled,
\* not cancelled) has larger ticks, or equal ticks and was scheduled later
\* (jobs are numbered in the order of their schedule calls).
C1_RunOrder ==
    \A k \in lastrun.waiting :
        \/ job[lastrun.job].ticks < job[k].ticks
        \/ job[lastrun.job].ticks = job[k].ticks /\ lastrun.job < k

\* ------------------------------------------------------------------------
\* C5: every Join accepted through DeviceTest.join has a DevNonce strictly
\* greater than every DevNonce accepted before for the same DevEUI
\* (lnsop.prev is the largest of them, None if there was none).
C5_NonceIncreasing ==
    (lnsop.op = "DeviceTest.join" /\ lnsop.res = "ok" /\ lnsop.prev # None)
        => lnsop.nonce > lnsop.prev

\* ------------------------------------------------------------------------
\* C6: a downlink built by LNS.dl or DeviceTest.dndf carries FCnt = fcntdn + adj
\* (fcntdn read before the call); afterwards fcntdn is the old value plus
\* 1 + adj if adj >= 0 and the old value if adj < 0; it never decreases.
C6_FcntDn ==
    lnsop.op = "dl" =>
        /\ lnsop.fcnt = lnsop.old + lnsop.adj
        /\ sess[lnsop.s].fcntdn = IF lnsop.adj >= 0 THEN lnsop.old + 1 + lnsop.adj
                                  ELSE lnsop.old
        /\ sess[lnsop.s].fcntdn >= lnsop.old

\* a downlink with fcntdn_adj = -2 built after the counter had advanced
C6_Witness ==
    /\ lnsop.op = "dl"
    /\ lnsop.adj < 0 - 1
    /\ lnsop.old > 0
    /\ sess[lnsop.s].fcntdn = lnsop.old

\* ------------------------------------------------------------------------
\* C7: when LNS.unpack returns a frame, the session's fcntup equals the frame's
\* FCnt and the frame's DevAddr equals the session's devaddr; when it raises,
\* fcntup is what it was before the call.
C7_Unpack ==
    lnsop.op = "unpack" =>
        IF lnsop.res = "ok"
        THEN /\ sess[lnsop.s].fcntup = lnsop.fcnt
             /\ sess[lnsop.s].devaddr = lnsop.devaddr
        ELSE sess[lnsop.s].fcntup = lnsop.old

\* an uplink verified for the session and moved fcntup
C7_Witness ==
    /\ lnsop.op = "unpack"
    /\ lnsop.res = "ok"
    /\ lnsop.fcnt # lnsop.old
    /\ sess[lnsop.s].fcntup = lnsop.fcnt

\* ------------------------------------------------------------------------
\* C8: when LNS.try_unpack returns a session, it is the first session registered
\* for the address whose key verifies the frame, and that session's fcntup
\* equals the frame's FCnt; when it raises, no registered session verifies.
C8_TryUnpack ==
    lnsop.op = "try_unpack" =>
        LET cands == SmGetByAddr(sm.lns, lnsop.devaddr)
            ok(i) == sess[cands[i]].nwkskey = lnsop.mickey
        IN  IF lnsop.res = "ok"
            THEN /\ \E i \in 1..Len(cands) :
                        /\ cands[i] = lnsop.s
                        /\ ok(i)
                        /\ \A k \in 1..(i - 1) : ~ok(k)
                 /\ sess[lnsop.s].fcntup = lnsop.fcnt
            ELSE \A i \in 1..Len(cands) : ~ok(i)

\* ------------------------------------------------------------------------
\* Reading the history of calls and callbacks
TraceIdx == 1..Len(trace)

\* the scheduler has nothing left to run
Drained == jobs = <<>> /\ ~stepping /\ fault = ""

\* the positions of the Medium's call msg_<ph>(m)
PhaseAt(m, ph) ==
    {i \in TraceIdx : trace[i].e = "phase" /\ trace[i].ph = ph /\ trace[i].m = m}

PhasePos(m, ph) == CHOOSE i \in PhaseAt(m, ph) : TRUE

\* the callbacks the listener l got for the message m, in order
CbsOf(l, m) ==
    SelectSeq(trace, LAMBDA ev : ev.e = "cb" /\ ev.l = l /\ ev.m = m)

PhasesOf(l, m) == [i \in 1..Len(CbsOf(l, m)) |-> CbsOf(l, m)[i].ph]

\* the add_listener and remove_listener calls for l between two positions
AddsIn(l, a, b) ==
    {i \in TraceIdx : a < i /\ i < b /\ trace[i].e = "add" /\ trace[i].l = l}

RemovesIn(l, a, b) ==
    {i \in TraceIdx : a < i /\ i < b /\ trace[i].e = "rm" /\ trace[i].l = l}

\* the listeners there have been
AllListeners == 0..Len(rx)

\* ------------------------------------------------------------------------
\* C2: for every receive() made when no earlier receive is pending, the
\* receiver's cb is invoked exactly once: never twice, and once when the
\* scheduler has drained.
C2_CbExactlyOnce ==
    \A g \in 1..Len(rxn) : \A n \in 1..rxn[g] :
        LET cbs == {i \in TraceIdx : trace[i].e = "rxcb" /\ trace[i].g = g /\ trace[i].n = n}
        IN  /\ Cardinality(cbs) <= 1
            /\ Drained => Cardinality(cbs) = 1

C4_CompletedOnce ==
    \A m \in 1..Len(msgs) :
        /\ Cardinality(PhaseAt(m, "cmp")) + Cardinality(PhaseAt(m, "abort")) <= 1
        /\ Drained => Cardinality(PhaseAt(m, "cmp")) + Cardinality(PhaseAt(m, "abort")) = 1

\* ------------------------------------------------------------------------
\* C9: no frame the gateway has enqueued, holds in its queue or has returned
\* from next_up has the gateway as src or an IQ-inverted rps.
IsUplink(m) == msgs[m].src # 0 /\ ~IsIqInv(msgs[m].rps)

C9_NoOwnNoInverted ==
    /\ \A i \in TraceIdx : trace[i].e \in {"enq", "up"} => IsUplink(trace[i].m)
    /\ \A i \in 1..Len(upframes) : IsUplink(upframes[i])

\* a downlink of the gateway with a plain rps and an IQ-inverted frame of the
\* device have both been completed to the gateway
C9_Witness ==
    /\ \E i \in TraceIdx :
        /\ trace[i].e = "cb" /\ trace[i].l = 0 /\ trace[i].ph = "cmp"
        /\ msgs[trace[i].m].src = 0 /\ ~IsIqInv(msgs[trace[i].m].rps)
    /\ \E i \in TraceIdx :
        /\ trace[i].e = "cb" /\ trace[i].l = 0 /\ trace[i].ph = "cmp"
        /\ msgs[trace[i].m].src # 0 /\ IsIqInv(msgs[trace[i].m].rps)

\* ------------------------------------------------------------------------
\* C10: the frames next_up has returned, followed by the frames still queued,
\* are the uplinks in the order their msg_complete reached the gateway; none
\* is returned twice; each is returned as a LoraWanMsg or as the error.
GwCompleted ==
    SelectSeq(trace, LAMBDA ev : ev.e = "cb" /\ ev.l = 0 /\ ev.ph = "cmp" /\ IsUplink(ev.m))

Surfaced == SelectSeq(trace, LAMBDA ev : ev.e = "up")

C10_Fifo ==
    /\ [i \in 1..Len(Surfaced) |-> Surfaced[i].m] \o upframes
           = [i \in 1..Len(GwCompleted) |-> GwCompleted[i].m]
    /\ \A i, k \in 1..Len(Surfaced) : Surfaced[i].m = Surfaced[k].m => i = k
    /\ \A i \in 1..Len(Surfaced) : Surfaced[i].res \in {"LoraWanMsg", "ValueError"}

\* two uplinks were queued together and both have been returned
C10_Witness ==
    /\ Len(Surfaced) = 2
    /\ \E i \in TraceIdx :
        /\ i + 1 \in TraceIdx
        /\ trace[i].e = "up" /\ trace[i + 1].e = "up"
        /\ \E k \in 1..(i - 1) : trace[k].e = "enq" /\ trace[k].m = trace[i + 1].m

\* ------------------------------------------------------------------------
\* C11: every interrupt dispatch is matched by exactly one done() before the
\* interrupted code resumes: cprio always has the base entry -1 at its bottom
\* and one entry per interrupt being handled, and whenever code of the main
\* program runs cprio is the base entry alone.
C11_DispatchMatched ==
    /\ cprio # <<>>
    /\ cprio[1] = 0 - 1
    /\ Len(cprio) = Len(frames) + 1
    /\ (dloop = "emu" /\ InMain(epc)) => cprio = <<0 - 1>>

\* ------------------------------------------------------------------------
\* C12: irq_return sets the pc to the pc at which the interrupted code had
\* stopped when the interrupt was dispatched.
C12_ResumePc == iret.got = iret.want

\* ------------------------------------------------------------------------
\* C13: a pending interrupt request implies that the running event is set,
\* and the driver task is never suspended in running.wait() with a request
\* pending and the event clear.
C13_NoLostWakeup ==
    /\ NvicRequested => running
    /\ (dloop = "wait" /\ blocked /\ ~running) => ~NvicRequested

\* SVC WFI was called while a request was pending and the driver loop goes on
C13_Witness ==
    /\ gop = "wfi"
    /\ NvicRequested
    /\ dloop = "wait"
    /\ ~blocked

\* ------------------------------------------------------------------------
\* C14: when step() leaves its loop, the jobs that have been run are exactly
\* the non-cancelled jobs with ticks <= now (now as read once at the start of
\* the step): no cancelled job was run, every job not run and not cancelled
\* has ticks > now and is still in the heap, whether client code scheduled it
\* or a running job did.
RanSet == {ran[i] : i \in 1..Len(ran)}

HeapSet == {jobs[i] : i \in 1..Len(jobs)}

C14_StepExact ==
    [][StepEnd =>
        \A j \in 1..Len(job) :
            /\ job[j].cancelled => j \notin RanSet
            /\ ~job[j].cancelled => (j \in RanSet <=> job[j].ticks <= now)
            /\ (~job[j].cancelled /\ j \notin RanSet) => j \in HeapSet]_vars

\* a step has ended in which a job scheduled by a running job was run, another
\* one with ticks > now was left in the heap, and a cancelled job was dropped
C14_Witness ==
    /\ ~stepping
    /\ handle # None
    /\ \E j \in RanSet : job[j].own # None
    /\ \E j \in HeapSet : job[j].own # None /\ job[j].ticks > now /\ ~job[j].cancelled
    /\ \E j \in 1..Len(job) : job[j].cancelled /\ j \notin HeapSet /\ j \notin RanSet

\* ------------------------------------------------------------------------
\* C15: whenever the Runtime is not inside step(), at most one host timer is
\* live, it is the one Runtime.handle refers to, and it is armed for the ticks
\* of the heap's head if the heap holds a job that is not cancelled (none is
\* armed if the heap is empty); while step() is running no timer is armed.
C15_OneTimer ==
    /\ Len(timers) <= 1
    /\ InStep => timers = <<>>
    /\ ~InStep =>
        /\ Waiting(job, jobs) # {} => (timers = <<job[jobs[1]].ticks>> /\ handle = timers[1])
        /\ jobs = <<>> => timers = <<>>

\* ------------------------------------------------------------------------
\* C17: when a job has raised out of step(), the fault is recorded for the
\* driver loop (Simulation.ex), which raises it.
C17_FaultRecorded == fault # "" => (ex = fault \/ dloop = "raised")

\* ------------------------------------------------------------------------
\* The named-job overlay
RFns == {"rxstart", "timeout", "msg_lock"}
XFns == {"txstart", "txpayload", "txdone"}
Tags == {"lock", "timeout", "other"}

DictKeys(d) == {d[i].k : i \in 1..Len(d)}

\* the jobs of one group that are scheduled, not cancelled and not yet run
Pending(own, fns) ==
    {j \in 1..Len(job) : /\ job[j].own = own
                         /\ job[j].fn \in fns
                         /\ ~job[j].cancelled
                         /\ \E i \in 1..Len(jobs) : jobs[i] = j}

\* name2job[n] = j iff job2name[j] = n
JgConsistent(G) ==
    /\ \A i \in 1..Len(G.name2job) :
          /\ DictHas(G.job2name, G.name2job[i].v)
          /\ DictGet(G.job2name, G.name2job[i].v) = G.name2job[i].k
    /\ \A i \in 1..Len(G.job2name) :
          G.job2name[i].v # "" =>
              /\ DictHas(G.name2job, G.job2name[i].v)
              /\ DictGet(G.name2job, G.job2name[i].v) = G.job2name[i].k
    /\ \A i, k \in 1..Len(G.job2name) : G.job2name[i].k = G.job2name[k].k => i = k
    /\ \A i, k \in 1..Len(G.name2job) : G.name2job[i].k = G.name2job[k].k => i = k

\* the job step() is about to run belongs to a receiver
HeadIsRx == InStep /\ jobs # <<>> /\ ~job[jobs[1]].cancelled /\ job[jobs[1]].fn \in RFns

\* C16: in every group name2job and job2name are each other's inverse and
\* job2name holds exactly the group's jobs that are scheduled, not cancelled
\* and not yet run; cancel of a tag that is not in name2job changes nothing;
\* the prerun hook of the job about to run takes the job and its tag out of
\* the group before the callback, so the callback can schedule under that tag
C16_JobsConsistent ==
    /\ \A g \in 1..Len(rgrp) :
          /\ JgConsistent(rgrp[g])
          /\ DictKeys(rgrp[g].job2name) = Pending(g, RFns)
          /\ \A n \in Tags : ~DictHas(rgrp[g].name2job, n) => RCancel(World, g, n) = World
    /\ \A o \in DOMAIN xgrp :
          /\ JgConsistent(xgrp[o])
          /\ DictKeys(xgrp[o].job2name) = Pending(o, XFns)
    /\ HeadIsRx =>
          LET j == jobs[1]
              g == job[j].own
              n == DictGet(rgrp[g].job2name, j)
              W == RPrerun(Popped, g, j)
          IN  /\ W.exc = ""
              /\ j \notin DictKeys(W.rgrp[g].job2name)
              /\ n # "" => ~DictHas(W.rgrp[g].name2job, n)
              /\ n # "" => RSchedule(W, g, n, 0, "timeout").exc = ""

\* a "timeout" job of a receiver has run and the tag is in use again for a
\* later job of the same group, while a cancel("lock") would find no such tag
C16_Witness ==
    \E g \in 1..Len(rgrp) : \E j1, j2 \in 1..Len(job) :
        /\ j1 < j2
        /\ job[j1].own = g /\ job[j1].fn = "timeout" /\ ~job[j1].cancelled
        /\ \A i \in 1..Len(jobs) : jobs[i] # j1
        /\ DictHas(rgrp[g].name2job, "timeout")
        /\ DictGet(rgrp[g].name2job, "timeout") = j2
        /\ ~DictHas(rgrp[g].name2job, "lock")

\* ------------------------------------------------------------------------
\* the positions of the trace where event e of message m is logged
TraceAt(e, m) == {i \in 1..Len(trace) : trace[i].e = e /\ trace[i].m = m}

\* C18: a transmit while the transmitter holds a message raises and leaves
\* the held message, the jobs and the medium as they are; when the txdone
\* job has run, msg_complete of the held message was called, then cb with
\* that message, and the slot is empty
C18_OneMessage ==
    /\ [][(GwSchedDn /\ xm[0] # None) =>
             /\ fault' = "AssertionError"
             /\ UNCHANGED <<msgs, xm, xgrp, job, jobs, handle, timers, pmsg, trace>>]_vars
    /\ [][RunTxDone =>
             LET o == job[jobs[1]].own
                 m == xm[o]
             IN  /\ xm'[o] = None
                 /\ fault' = ""
                 /\ \E i \in (Len(trace) + 1)..Len(trace') :
                       /\ trace'[i].e = "phase" /\ trace'[i].ph = "cmp" /\ trace'[i].m = m
                       /\ o # 0 => /\ trace'[Len(trace')].e = "txcb"
                                   /\ trace'[Len(trace')].m = m
                                   /\ i < Len(trace')]_vars
    /\ [](\A o \in DOMAIN xm : xm[o] # None => TraceAt("txcb", xm[o]) = {})

\* the Radio's transmission is complete with its cb called, the gateway holds
\* a message and a further sched_dn has raised
C18_Witness ==
    /\ fault = "AssertionError"
    /\ xm[0] # None
    /\ \E i \in 1..Len(trace) : trace[i].e = "txcb"

\* ------------------------------------------------------------------------
\* the messages whose preamble the Medium was given before position i of the
\* trace tr and whose payload or abort it was not
InAir(tr, i) ==
    {m \in 1..Len(msgs) :
        /\ \E k \in 1..(i - 1) : tr[k].e = "phase" /\ tr[k].ph = "pre" /\ tr[k].m = m
        /\ ~\E k \in 1..(i - 1) : /\ tr[k].e = "phase" /\ tr[k].ph \in {"pld", "abt"}
                                  /\ tr[k].m = m}

\* position k of the trace is a msg_preamble(m, t) replayed to l
IsReplay(tr, k, l) ==
    /\ tr[k].e = "cb" /\ tr[k].l = l /\ tr[k].ph = "pre" /\ tr[k].t # None

\* the messages replayed by the add_listener logged at position i
Replayed(tr, i) ==
    {tr[k].m : k \in {n \in (i + 1)..Len(tr) : \A q \in (i + 1)..n : IsReplay(tr, q, tr[i].l)}}

\* l is a listener just before position k of the trace
ListensAt(tr, l, k) ==
    \E i \in 1..(k - 1) :
        /\ tr[i].e = "add" /\ tr[i].l = l
        /\ ~\E r \in (i + 1)..(k - 1) : tr[r].e = "rm" /\ tr[r].l = l

\* C19: pmsg is the set of the messages between their preamble and their
\* payload or abort (msg_complete leaves it alone); every add_listener
\* replays the preamble of exactly these messages; no preamble of a message
\* reaches a listener after the message's payload or abort; a listener that
\* was removed gets no callback
C19_Replay ==
    /\ [](pmsg = InAir(trace, Len(trace) + 1))
    /\ [][\A i \in (Len(trace) + 1)..Len(trace') :
             /\ trace'[i].e = "add" =>
                   /\ Replayed(trace', i) = InAir(trace', i)
                   /\ Replayed(trace', i) = pmsg
             /\ trace'[i].e = "cb" =>
                   /\ ListensAt(trace', trace'[i].l, i)
                   /\ trace'[i].ph = "pre" => trace'[i].m \in InAir(trace', i)]_vars

\* a receiver was added while a preamble was in the air and got its replay,
\* a message was aborted, and a receiver was removed before a later phase of
\* a message, which it was not called for
C19_Witness ==
    /\ \E i \in 1..Len(trace) : trace[i].e = "add" /\ Replayed(trace, i) # {}
    /\ \E k \in 1..Len(trace) : trace[k].e = "phase" /\ trace[k].ph = "abt"
    /\ \E r \in 1..Len(trace) :
          /\ trace[r].e = "rm"
          /\ \E k \in (r + 1)..Len(trace) : trace[k].e = "phase" /\ trace[r].l \notin trace[k].ls

\* ------------------------------------------------------------------------
\* the preambles of FSK messages on the frequency of the FSK receive window
\* of l that are delivered among the events tr[a..b]
FskCalls(tr, a, b, l) ==
    {tr[i].m : i \in {k \in a..b : /\ tr[k].e = "cb" /\ tr[k].ph = "pre" /\ tr[k].l = l
                                   /\ IsFSK(msgs'[tr[k].m].rps)
                                   /\ msgs'[tr[k].m].freq = rx'[l].freq}}

\* C20: while a receiver listens with an FSK rps, the preamble of every FSK
\* message on its frequency is accepted: after the callback the receiver
\* holds a candidate, and if it held none it holds one of the messages just
\* delivered
C20_FskAccepted ==
    [][\A l \in 1..Len(rx) :
          (IsFSK(rx'[l].rps) /\ FskCalls(trace', Len(trace) + 1, Len(trace'), l) # {}) =>
              /\ rx'[l].msg # None
              /\ rx[l].msg = None =>
                    rx'[l].msg \in FskCalls(trace', Len(trace) + 1, Len(trace'), l)]_vars

\* ------------------------------------------------------------------------
\* the (region, channel) pairs of a region list that fit a frame
Fits(regs, freq, rps) ==
    {rc \in (1..Len(regs)) \X (0..2) :
        /\ rc[2] < Len(regs[rc[1]].upchannels)
        /\ ChFits(regs[rc[1]].upchannels[rc[2] + 1], freq,
                  ToDr(regs[rc[1]], GetSfBw(rps)[1], GetSfBw(rps)[2]))}

\* C21: getupparams returns a region and a channel that fit the frame, with
\* dr the data rate of the frame in that region, and no other region and
\* channel of the gateway fit; it raises ValueError if none fits
C21_UniqueTriple ==
    lnsop.op = "getupparams" =>
        LET F == Fits(lnsop.regs, lnsop.freq, lnsop.rps)
        IN  IF F = {} THEN lnsop.res.exc = "ValueError"
            ELSE /\ lnsop.res.exc = ""
                 /\ <<lnsop.res.reg, lnsop.res.ch>> \in F
                 /\ lnsop.res.dr = ToDr(lnsop.regs[lnsop.res.reg], GetSfBw(lnsop.rps)[1],
                                        GetSfBw(lnsop.rps)[2])
                 /\ Cardinality(F) = 1

\* ------------------------------------------------------------------------
\* outer[k1][k2] is s
SmHolds(outer, k1, k2, s) ==
    /\ DictHas(outer, k1)
    /\ DictHas(DictGet(outer, k1), k2)
    /\ DictGet(DictGet(outer, k1), k2) = s

\* the session s is registered in M
Registered(M, s) == SmHolds(M.addr2sess, sess[s].devaddr, sess[s].deveui, s)

\* the two indices hold the same sessions and no empty inner table
SmConsistent(M) ==
    /\ \A i \in 1..Len(M.addr2sess) : \A k \in 1..Len(M.addr2sess[i].v) :
          SmHolds(M.eui2sess, M.addr2sess[i].v[k].k, M.addr2sess[i].k, M.addr2sess[i].v[k].v)
    /\ \A i \in 1..Len(M.eui2sess) : \A k \in 1..Len(M.eui2sess[i].v) :
          SmHolds(M.addr2sess, M.eui2sess[i].v[k].k, M.eui2sess[i].k, M.eui2sess[i].v[k].v)
    /\ \A i \in 1..Len(M.addr2sess) : M.addr2sess[i].v # <<>>
    /\ \A i \in 1..Len(M.eui2sess) : M.eui2sess[i].v # <<>>

\* C22: addr2sess and eui2sess index the same sessions, neither holds an
\* empty inner table, and remove of a session that is not registered leaves
\* both as they are
C22_SmIndices ==
    /\ [](SmConsistent(sm.lns) /\ SmConsistent(sm.dt))
    /\ [][(lnsop'.op = "sm.remove" /\ SmRemoveCall /\ ~Registered(sm.lns, lnsop'.s))
             => sm' = sm]_vars

\* ------------------------------------------------------------------------
\* NVIC.done() raises: there is no active priority to pop, or the one popped
\* is the base entry
DoneRaises == cprio = <<>> \/ Last(cprio) = 0 - 1

\* C23: an exception raised while an SVC is handled is recorded and the
\* driver loop has raised it when the emulator has stopped; an exception
\* raised in the interrupt return makes the driver loop raise as well; in
\* both cases no guest code runs afterwards
C23_FaultCaptured ==
    /\ [](ex # "" => dloop = "raised")
    /\ [][(IrqReturn /\ DoneRaises) => dloop' = "raised"]_vars
    /\ [][dloop = "raised" => dloop' = "raised"]_vars

\* ------------------------------------------------------------------------
\* C24: VirtualTimeLoop.time() changes only when the loop dispatches a timer
\* handle, it is then that handle's when, and it never decreases, whatever
\* call_at / call_later / call_soon requests are made (a when before the
\* current time included).
C24_TimeMonotonic ==
    [][/\ vtime' # vtime => VtRun
       /\ VtRun => vtime' = vth[vtop'.h].when
       /\ vtime' >= vtime]_vars

\* the part that holds: the time moves only when the loop pops a handle, and
\* to that handle's when
C24_TimeIsWhen ==
    [][/\ vtime' # vtime => VtRun
       /\ VtRun => vtime' = vth[vtop'.h].when]_vars

\* ------------------------------------------------------------------------
\* C25: for sf in 7..12, bw in {125000, 250000, 500000}, cr in 1..4, crc and
\* ih in {0, 1}, the five getters applied to makeRps(sf, bw, cr, crc, ih)
\* return sf, bw, cr, crc and ih, and the value has sf - 6 in bits 0..2, the
\* index of bw in bits 3..4, cr - 1 in bits 5..6, the negation of crc in
\* bit 7 and ih in bits 8..15; validate accepts an rps exactly if it is FSK
\* or its five fields decode into that domain.
InRpsDomain(sf, bw, cr, crc, ih) ==
    sf \in Sfs /\ bw \in Bws /\ cr \in 1..4 /\ crc \in 0..1 /\ ih \in 0..1

C25_RpsRoundTrip ==
    /\ lnsop.op = "makeRps" =>
        /\ GetSf(lnsop.rps) = lnsop.sf
        /\ GetBw(lnsop.rps) = lnsop.bw
        /\ GetCr(lnsop.rps) = lnsop.cr
        /\ GetCrc(lnsop.rps) = lnsop.crc
        /\ GetIh(lnsop.rps) = lnsop.ih
        /\ lnsop.rps % 8 = lnsop.sf - 6
        /\ (lnsop.rps \div 8) % 4 = BwIndex(lnsop.bw)
        /\ (lnsop.rps \div 32) % 4 = lnsop.cr - 1
        /\ (lnsop.rps \div 128) % 2 = (IF lnsop.crc = 1 THEN 0 ELSE 1)
        /\ (lnsop.rps \div 256) % 256 = lnsop.ih
    /\ lnsop.op = "validate" =>
        (lnsop.res = "" <=>
            \/ lnsop.rps % 8 = 0
            \/ InRpsDomain(GetSf(lnsop.rps), GetBw(lnsop.rps), GetCr(lnsop.rps),
                           GetCrc(lnsop.rps), GetIh(lnsop.rps)))

\* makeRps(12, 500000, 4, 0, 1): every field at the far end of its range
C25_Witness ==
    /\ lnsop.op = "makeRps"
    /\ lnsop.sf = 12 /\ lnsop.bw = 500000 /\ lnsop.cr = 4 /\ lnsop.crc = 0 /\ lnsop.ih = 1

\* ------------------------------------------------------------------------
\* C26: every LoraMsg has xbeg <= xpld <= xend, with xpld - xbeg = Tpreamble
\* and xend - xpld = Tpayload. For LoRa Tpreamble = (npreamble + 4.25) Ts and
\* the payload has 8 + max(0, ceil((8 len - 4 sf + 28 + 16 crc - 20 ih) /
\* (4 sf - 8 dro)) (cr + 4)) symbols, where dro is the caller's, or else 1
\* exactly for SF11 and SF12 at 125 kHz and SF12 at 250 kHz. For FSK
\* Tpreamble = 8 Ts and Tpayload = (3 + 1 + 2 + len) Ts.
PayloadSyms(rps, len, dro) ==
    LET num == 8 * len - 4 * GetSf(rps) + 28 + 16 * GetCrc(rps) - 20 * GetIh(rps)
        den == 4 * GetSf(rps) - 8 * dro
        c   == IF num % den = 0 THEN num \div den ELSE (num \div den) + 1
    IN  8 + Max(0, c * (GetCr(rps) + 4))

DroRule(rps, droarg) ==
    IF droarg # None THEN droarg
    ELSE IF \/ GetSf(rps) \in {11, 12} /\ GetBw(rps) = 125000
            \/ GetSf(rps) = 12 /\ GetBw(rps) = 250000
         THEN 1 ELSE 0

AirTimeOk(op) ==
    LET m  == op.msg
        Ts == SymTime(op.rps, 1)
    IN  /\ m.xbeg <= m.xpld /\ m.xpld <= m.xend
        /\ IF GetSf(op.rps) = 0
           THEN /\ m.xpld - m.xbeg = 8 * Ts
                /\ m.xend - m.xpld = (3 + 1 + 2 + op.len) * Ts
           ELSE /\ 4 * (m.xpld - m.xbeg) = (4 * op.npreamble + 17) * Ts
                /\ m.xend - m.xpld = PayloadSyms(op.rps, op.len, DroRule(op.rps, op.droarg)) * Ts
                /\ m.dro = DroRule(op.rps, op.droarg)

C26_AirTime ==
    (lnsop.op = "LoraMsg" /\ lnsop.msg.exc = "") => AirTimeOk(lnsop)

\* the part that holds: the messages of unicorn/simul/medium.py, and the
\* LoRa messages of either module
C26_AirTimeSimul ==
    (/\ lnsop.op = "LoraMsg" /\ lnsop.msg.exc = ""
     /\ (lnsop.impl = "simul" \/ GetSf(lnsop.rps) # 0)) => AirTimeOk(lnsop)

\* ------------------------------------------------------------------------
\* C27: cb(msg) is delivered only for a message the receiver adopted and
\* locked on. A message is adopted when its preamble is observed with no
\* candidate held and it has the receive freq and rps; a lock job is then set
\* for t + symtime(rps, symdetect), t being the tune-in time the Medium
\* passes, or the message's xbeg. The lock fires before the message's
\* payload starts and before the receive's callback. When the payload of an
\* unlocked candidate starts, the candidate and its lock job are dropped, the
\* timeout stays armed, and the message cannot be adopted again.
NewEvents == {trace'[i] : i \in (Len(trace) + 1)..Len(trace')}

RcvDeliverOk ==
    \A ev \in NewEvents :
        (ev.e = "rxcb" /\ ev.m # None) =>
            /\ rx[ev.g].msg = ev.m
            /\ rx[ev.g].locked
            /\ msgs[ev.m].freq = rx[ev.g].freq
            /\ msgs[ev.m].rps = rx[ev.g].rps

RcvAdoptOk ==
    \A g \in DOMAIN rx :
        (rx'[g].msg # None /\ rx'[g].msg # rx[g].msg) =>
            LET m == rx'[g].msg
            IN  /\ rx[g].msg = None
                /\ msgs'[m].freq = rx'[g].freq
                /\ msgs'[m].rps = rx'[g].rps
                /\ m \in pmsg'
                /\ \E ev \in NewEvents :
                    /\ ev.e = "cb" /\ ev.l = g /\ ev.ph = "pre" /\ ev.m = m
                    /\ fault' = "" =>
                        /\ DictHas(rgrp'[g].name2job, "lock")
                        /\ LET j == DictGet(rgrp'[g].name2job, "lock")
                               t == IF ev.t = None THEN msgs'[m].xbeg ELSE ev.t
                           IN  /\ j > Len(job)
                               /\ job'[j].fn = "msg_lock"
                               /\ ~job'[j].cancelled
                               /\ job'[j].ticks =
                                      Time2Ticks(epoch, t + SymTime(rx'[g].rps, SymDetect))

RcvLockOk ==
    \A g \in DOMAIN rx :
        (~rx[g].locked /\ rx'[g].locked) =>
            /\ rx[g].msg # None
            /\ rx'[g].msg = rx[g].msg
            /\ rx[g].msg \in pmsg
            /\ drv[g] = "rx"
            /\ ~DictHas(rgrp'[g].name2job, "timeout")

RcvDropOk ==
    \A ev \in NewEvents :
        (ev.e = "cb" /\ ev.l # 0 /\ ev.ph = "pld"
         /\ rx[ev.l].msg = ev.m /\ ~rx[ev.l].locked) =>
            LET g == ev.l
            IN  /\ rx'[g].msg = None
                /\ ~rx'[g].locked
                /\ ev.m \notin pmsg'
                /\ DictHas(rgrp[g].name2job, "lock")
                /\ job'[DictGet(rgrp[g].name2job, "lock")].cancelled
                /\ ~DictHas(rgrp'[g].name2job, "lock")
                /\ DictHas(rgrp[g].name2job, "timeout") =>
                    /\ DictHas(rgrp'[g].name2job, "timeout")
                    /\ DictGet(rgrp'[g].name2job, "timeout") = DictGet(rgrp[g].name2job, "timeout")
                    /\ ~job'[DictGet(rgrp[g].name2job, "timeout")].cancelled

C27_LockedDelivery ==
    [][RcvDeliverOk /\ RcvAdoptOk /\ RcvLockOk /\ RcvDropOk]_vars

\* a message has been delivered, and in a later receive the lock job set at
\* rxstart (just before the timeout) was dropped at the payload of its
\* candidate while the timeout is still armed
C27_Witness ==
    /\ \E i \in 1..Len(trace) : trace[i].e = "rxcb" /\ trace[i].m # None
    /\ \E g \in DOMAIN rx :
        /\ rx[g].msg = None
        /\ DictHas(rgrp[g].name2job, "timeout")
        /\ LET j == DictGet(rgrp[g].name2job, "timeout") - 1
           IN  job[j].fn = "msg_lock" /\ job[j].own = g /\ job[j].cancelled

\* ------------------------------------------------------------------------
\* C28: a receiver is a listener of the Medium only from the rxstart of a
\* receive until the callback of that receive is delivered: between
\* receives, and between receive() and rxstart, it is no listener, adopts no
\* candidate and schedules no lock job.
\* the receive() of g that is under way has had its rxstart
RxStarted(g) ==
    /\ drv[g] = "rx"
    /\ \E i \in 1..Len(trace) :
        /\ trace[i].e = "add" /\ trace[i].l = g
        /\ \E k \in 1..(i - 1) : trace[k].e = "rx" /\ trace[k].g = g /\ trace[k].n = rxn[g]

C28_ListenerWindow ==
    /\ [](\A g \in DOMAIN rx : g \in listeners => RxStarted(g))
    /\ [][\A g \in DOMAIN rx :
            \/ rx'[g].msg # None /\ rx'[g].msg # rx[g].msg
            \/ \E j \in (Len(job) + 1)..Len(job') :
                   job'[j].fn = "msg_lock" /\ job'[j].own = g
            => RxStarted(g)']_vars

\* the part that holds: the receiver is no listener before the first rxstart,
\* and none once a timeout has delivered cb(None)
C28_ListenerFromRxStart ==
    \A g \in DOMAIN rx :
        g \in listeners =>
            \E i \in 1..Len(trace) :
                /\ trace[i].e = "add" /\ trace[i].l = g
                /\ \A k \in (i + 1)..Len(trace) :
                    ~(trace[k].e = "rxcb" /\ trace[k].g = g /\ trace[k].m = None)

\* ------------------------------------------------------------------------
\* C29: every job that is scheduled and never cancelled is eventually run,
\* once, when the host loop fires the timers it holds and the clock reaches
\* the job's ticks; whenever the Runtime is not inside step(), a job that
\* waits in the heap and is not cancelled has a host timer armed at or
\* before its ticks.
HasRun(j) == \E i \in 1..Len(ran) : ran[i] = j

RunOnce == \A i, k \in 1..Len(ran) : ran[i] = ran[k] => i = k

TimerArmed ==
    ~InStep =>
        \A j \in Waiting(job, jobs) : \E i \in 1..Len(timers) : timers[i] <= job[j].ticks

C29_EventuallyRun ==
    /\ \A j \in 1..MaxJobs :
        (j \in DOMAIN job) ~> (j \in DOMAIN job /\ (HasRun(j) \/ job[j].cancelled))
    /\ [](RunOnce /\ TimerArmed)

\* the part that holds: no job is run twice, and as long as no job raises an
\* exception a waiting job has its timer
C29_ArmedUnlessFault ==
    RunOnce /\ (fault = "" => TimerArmed)

\* ------------------------------------------------------------------------
\* C30: in every reachable state NVIC.cprio is non-empty, its bottom entry is
\* -1 and it increases strictly from bottom to top; handler() dispatches only
\* the pending pid of highest priority, and only if that priority is above
\* the top of cprio; otherwise it returns no vector and leaves cprio as it is.
PrioStackOk ==
    /\ cprio # <<>>
    /\ cprio[1] = 0 - 1
    /\ \A i \in 1..(Len(cprio) - 1) : cprio[i] < cprio[i + 1]

HandlerOk ==
    (DriverWake /\ NvicRequested /\ cprio # <<>>) =>
        IF \E p \in reqs : (\A q \in reqs : Prio(q) <= Prio(p)) /\ Prio(p) > Last(cprio)
        THEN \E p \in reqs :
                /\ \A q \in reqs : Prio(q) <= Prio(p)
                /\ cprio' = Append(cprio, Prio(p))
                /\ epc' = ThumbAddr(Vtor(p))
        ELSE cprio' = cprio /\ epc' = ThumbAddr(pc)

C30_PrioStack ==
    []PrioStackOk /\ [][HandlerOk]_vars

\* the part that holds: what handler() does, and the order of the entries
C30_HandlerAndOrder ==
    /\ [](\A i \in 1..(Len(cprio) - 1) : cprio[i] < cprio[i + 1])
    /\ [][HandlerOk]_vars

\* ------------------------------------------------------------------------
\* the phases of message m the Medium was given, in order
MedPhases(tr, m) ==
    LET idx == SelectSeq([i \in 1..Len(tr) |-> i],
                         LAMBDA i : tr[i].e = "phase" /\ tr[i].m = m)
    IN  [k \in 1..Len(idx) |-> tr[idx[k]].ph]

\* the job at the head belongs to the gateway's transmitter and is due at
\* the time in field f of the message it holds
GwJobAt(f) ==
    job[jobs[1]].own = 0 =>
        /\ xm[0] # None
        /\ job[jobs[1]].ticks = Time2Ticks(epoch, msgs[xm[0]][f])

\* C31: a sched_dn made while the gateway's transmitter holds a message
\* raises AssertionError and leaves the messages, the slot, the jobs and the
\* Medium untouched; the message held goes on to its three phases, each run
\* by a job due at the message's own xbeg, xpld and xend
C31_SingleDownlink ==
    /\ [][(GwSchedDnTry /\ xm[0] # None) =>
             /\ lnsop'.res = "AssertionError"
             /\ UNCHANGED <<msgs, xm, xgrp, job, jobs, handle, timers, pmsg,
                            listeners, trace, fault>>]_vars
    /\ [][RunTxStart => GwJobAt("xbeg")]_vars
    /\ [][RunTxPayload => GwJobAt("xpld")]_vars
    /\ [][RunTxDone =>
             /\ GwJobAt("xend")
             /\ job[jobs[1]].own = 0 =>
                   /\ MedPhases(trace', xm[0]) = <<"pre", "pld", "cmp">>
                   /\ xm'[0] = None]_vars
    /\ [](\A i \in 1..Len(trace) :
            trace[i].e = "phase" =>
                \E k \in 1..(i - 1) : trace[k].e = "tx" /\ trace[k].m = trace[i].m)

\* a sched_dn has failed while the transmitter held a message, and that
\* message has since had its three phases
C31_Witness ==
    /\ lnsop.op = "sched_dn"
    /\ lnsop.res = "AssertionError"
    /\ lnsop.held # None
    /\ xm[0] = None
    /\ MedPhases(trace, lnsop.held) = <<"pre", "pld", "cmp">>

\* ------------------------------------------------------------------------
\* the sessions an index of a SessionManager holds
SmHeld(outer) ==
    UNION {{outer[i].v[j].v : j \in 1..Len(outer[i].v)} : i \in 1..Len(outer)}

\* C32: a DeviceTest.join whose Join-Request LNS.join rejects creates no
\* session and leaves the SessionManager and DeviceTest.session as they were
C32_RejectedJoinKeeps ==
    [][(DtJoin /\ lnsop'.res # "ok") => UNCHANGED <<sess, sm, dtsession>>]_vars

\* what a rejected join leaves: no new session, DeviceTest.session as it
\* was, and the SessionManager without the session the device held
C32_RejectedJoinRemoves ==
    [][(DtJoin /\ lnsop'.res # "ok") =>
          /\ UNCHANGED <<sess, dtsession>>
          /\ sm'.lns = sm.lns
          /\ dtsession # None =>
                /\ sm'.dt = SmRemove(sm.dt, sess, dtsession)
                /\ dtsession \notin SmHeld(sm'.dt.addr2sess) \cup SmHeld(sm'.dt.eui2sess)]_vars

\* C33: after a successful DeviceTest.join the SessionManager holds the new
\* session, in both of its indices and under the session's own keys, with
\* fcntup = 0, fcntdn = 0 and rx1delay = max(rxdly, 1), and holds the
\* session the device had before in neither index
C33_JoinReplacesSession ==
    [][(DtJoin /\ lnsop'.res = "ok") =>
          LET s == dtsession'
          IN  /\ s = Len(sess) + 1 /\ Len(sess') = s
              /\ s \in SmHeld(sm'.dt.addr2sess) /\ s \in SmHeld(sm'.dt.eui2sess)
              /\ DictGet(DictGet(sm'.dt.eui2sess, sess'[s].deveui), sess'[s].devaddr) = s
              /\ DictGet(DictGet(sm'.dt.addr2sess, sess'[s].devaddr), sess'[s].deveui) = s
              /\ sess'[s].deveui = lnsop'.deveui
              /\ sess'[s].fcntup = 0 /\ sess'[s].fcntdn = 0
              /\ sess'[s].rx1delay = Max(lnsop'.rxdly, 1)
              /\ dtsession # None =>
                    /\ dtsession # s
                    /\ dtsession \notin SmHeld(sm'.dt.addr2sess)
                    /\ dtsession \notin SmHeld(sm'.dt.eui2sess)]_vars

\* a second successful join, with rxdly = 0, of a device that has changed
\* its DevEUI: the session of the first join is held no longer
C33_Witness ==
    /\ lnsop.op = "DeviceTest.join" /\ lnsop.res = "ok"
    /\ lnsop.rxdly = 0
    /\ dtsession = 2
    /\ sess[1].deveui # sess[2].deveui
    /\ SmHeld(sm.dt.addr2sess) = {2}
    /\ SmHeld(sm.dt.eui2sess) = {2}

\* ------------------------------------------------------------------------
\* C34: no frame the firmware signals with svc(0) is lost: a recv() that
\* returns leaves no frame unreturned but the one it returns, and a recv()
\* returns None only if no svc(0) was made since the last recv() returned
C34_NoFrameLost ==
    /\ [][UartRecvTimeout => uart.unread = 0]_vars
    /\ [](uart.wait = "none" /\ uart.unread > 0 => uart.event)

\* what holds: a svc(0) made while a recv() is suspended ends that recv()
\* with the bytes of the frame sent last, and a recv() suspended with no
\* frame signalled since it was called returns None at its timeout
C34_WaitingRecvGetsFrame ==
    /\ [][(UartSvcSend /\ uart.wait # "none") =>
             uart'.event /\ uart'.wait = uart.wait]_vars
    /\ [][UartRecvReturn => pop'.res = uart.txn /\ pop'.res > 0]_vars
    /\ [](uart.wait # "none" /\ uart.event => uart.unread > 0)

\* ------------------------------------------------------------------------
\* the handles waiting in the loop, not cancelled, that were submitted before
\* handle h for the same when
EarlierSameWhen(h) ==
    {vtasks[k] : k \in 1..Len(vtasks)} \cap
        {i \in 1..(h - 1) : vth[i].when = vth[h].when /\ ~vth[i].cancelled}

\* C35: callbacks submitted for the same virtual time (call_soon, call_at or
\* call_later with equal when) are run in the order of their submission:
\* the loop never runs a handle while one submitted before it for the same
\* when is still waiting
C35_SameTimeFifo ==
    [][(VtRun /\ vtop'.op = "run") => EarlierSameWhen(vtop'.h) = {}]_vars

\* what holds: the handle run is one of the least when among those waiting
C35_LeastWhenFirst ==
    [][VtRun => \A k \in 1..Len(vtasks) : vth[vtop'.h].when <= vth[vtasks[k]].when]_vars

\* ------------------------------------------------------------------------
\* the frame of the last msg_complete as the gateway left it
GwcFrame == msgs[Len(msgs)]

\* the frame of the last msg_complete has been enqueued by it
GwcEnqueued ==
    /\ lnsop.op = "msg_complete"
    /\ TraceAt("enq", Len(msgs)) # {}

\* C36: on each uplink the gateway enqueues, rssi is xpow - 50 and snr is 10
\* where the frame had none, a value the frame had is kept, and no other
\* field is changed
C36_SignalOnlyIfUnset ==
    GwcEnqueued =>
        LET f == lnsop.frame
        IN  /\ GwcFrame.rssi = IF f.rssi = None THEN f.xpow - 50 ELSE f.rssi
            /\ GwcFrame.snr = IF f.snr = None THEN 10 ELSE f.snr
            /\ GwcFrame = [f EXCEPT !.rssi = GwcFrame.rssi, !.snr = GwcFrame.snr]

\* what holds: rssi is xpow - 50 and snr is 10 on every frame enqueued,
\* whatever it carried, the other fields are as they were, and a frame the
\* gateway does not enqueue is left as it was
C36_SignalAlwaysSet ==
    lnsop.op = "msg_complete" =>
        IF GwcEnqueued
        THEN GwcFrame = [lnsop.frame EXCEPT !.rssi = lnsop.frame.xpow - 50, !.snr = 10]
        ELSE GwcFrame = lnsop.frame

\* ------------------------------------------------------------------------
\* a step that calls GPIO.update
GpioUpdates == GpioSvc \/ GpioDrive \/ GpioExtConfig

\* C39: after a successful GPIO.update a driven pin reads its driver (outv
\* if driven internally, inpv if externally), an undriven pin with a pull-up
\* reads 1, an undriven pin with a pull-down and no pull-up reads 0; irq
\* gains (rise & changed & value) | (fall & changed & ~value) and loses
\* nothing; the GPIO's line is requested at the NVIC iff irq is not zero;
\* with outm & inpm not zero update raises and changes neither value nor irq
C39_GpioUpdate ==
    [][GpioUpdates =>
         LET g       == gpio'
             pullup  == g.pup \cup g.epup
             pulldn  == g.pdn \cup g.epdn
             driven  == g.outm \cup g.inpm
             changed == Xor(gpio.value, g.value)
         IN  /\ \A f \in {"outm", "outv", "pdn", "pup", "rise", "fall"} : g[f] = gpio[f]
             /\ IF g.outm \cap g.inpm # {}
                THEN /\ pop'.exc = "RuntimeError"
                     /\ g.value = gpio.value /\ g.irq = gpio.irq
                     /\ UNCHANGED reqs
                ELSE /\ pop'.exc = ""
                     /\ \A p \in g.outm : (p \in g.value) = (p \in g.outv)
                     /\ \A p \in g.inpm : (p \in g.value) = (p \in g.inpv)
                     /\ \A p \in Pins \ driven :
                           /\ p \in pullup => p \in g.value
                           /\ p \in pulldn \ pullup => p \notin g.value
                     /\ g.irq = gpio.irq \cup (g.rise \cap changed \cap g.value)
                                        \cup ((g.fall \cap changed) \ g.value)
                     /\ (GpioPid \in reqs') = (g.irq # {})]_vars

\* a falling edge on an externally driven pin has set its irq bit and the
\* line, while the other pin is driven by the firmware
C39_Witness ==
    /\ pop.op = "drive" /\ pop.exc = ""
    /\ 1 \in gpio.inpm /\ 1 \notin gpio.value
    /\ 1 \in gpio.fall /\ 1 \notin gpio.rise
    /\ gpio.irq = {1} /\ GpioPid \in reqs
    /\ 0 \in gpio.outm

\* a drive has been refused as a short circuit while an interrupt is pending
C39_ShortCircuitSeen ==
    pop.op = "drive" /\ pop.exc = "RuntimeError" /\ gpio.irq # {}

\* ------------------------------------------------------------------------
\* the classes of the peripherals in a table, and its pids
TableTypes(t) == {t[i].v : i \in 1..Len(t)}
TablePids(t)  == {t[i].k : i \in 1..Len(t)}

\* the steps of SvcCall, RunStart and GetPeripheral, told by the records
\* they leave
SvcStep    == gop' = "svc" /\ pop'.op = "svc"
RunStep    == gop' = "reset" /\ pop'.op = "run"
LookupStep == pop'.op = "get_peripheral" /\ pop' # pop

\* a step that runs Simulation.reset
ResetStep == (SvcStep /\ pop'.svcid = 4) \/ RunStep

\* C37: after every reset the table of peripherals is empty, the page of
\* every peripheral that was registered is unmapped, the pre-run hooks are
\* cleared, the interrupt handler is the dummy handler and the running
\* event is set; get_peripheral raises for a class until a PERIPH_REG of
\* the firmware has registered a peripheral of that class again
C37_ResetClears ==
    /\ [][ResetStep =>
             /\ periph' = <<>>
             /\ pages' \cap TablePids(periph) = {} /\ pages' = {}
             /\ hooks' = <<>>
             /\ ~nvic'
             /\ running']_vars
    /\ [][LookupStep =>
             IF pop'.type \in TableTypes(periph)
             THEN /\ pop'.exc = ""
                  /\ DictHas(periph, pop'.pid) /\ DictGet(periph, pop'.pid) = pop'.type
             ELSE pop'.exc = "ValueError"]_vars
    /\ [][\A t \in PerTypes :
             t \in TableTypes(periph') \ TableTypes(periph) =>
                 SvcStep /\ pop'.svcid = 1 /\ pop'.type = t /\ pop'.exc = ""]_vars
    /\ [](pages = TablePids(periph))

\* after a reset the firmware has registered an NVIC again, and a script
\* looking up the GPIO has got the error
C37_Witness ==
    /\ periph = <<[k |-> NvicPid, v |-> "NVIC"]>>
    /\ pages = {NvicPid}
    /\ hooks = <<>>
    /\ pop.op = "get_peripheral" /\ pop.type = "GPIO" /\ pop.exc = "ValueError"

\* ------------------------------------------------------------------------
\* what a step leaves of the emulator: stopped, or running on at the LR of
\* the call
SvcStopped  == dloop' # "emu"
SvcReturned == dloop' = "emu" /\ epc' = ThumbAddr(lr') /\ pc' = pc /\ ex' = ex

\* C38: svcid 0, 1, 2, 3, 4 invoke PANIC, PERIPH_REG, WFI, IRQ and RESET; any
\* other svcid below 0x01000000 is the fatal error 'Unknown SVCID'; an svcid
\* from 0x01000000 on calls svc(svcid & 0xffff) of the peripheral registered
\* under (svcid >> 16) & 0xff and is a fatal error if there is none;
\* PERIPH_REG and a peripheral's svc return to the caller with the emulator
\* running on, WFI, IRQ and RESET stop it
C38_SvcDispatch ==
    [][SvcStep =>
         LET id == pop'.svcid
             p  == (id \div 65536) % 256
             f  == id % 65536
         IN  /\ pop'.exc # "" => ex' = pop'.exc /\ SvcStopped /\ dloop' = "raised"
             /\ CASE id = 0 -> pop'.exc = "RuntimeError: PANIC" /\ periph' = periph
                  [] id = 1 ->
                       IF pop'.type \in PerTypes
                       THEN /\ pop'.exc = ""
                            /\ DictGet(periph', pop'.pid) = pop'.type
                            /\ pop'.pid \in pages'
                            /\ pop'.type = "NVIC" => nvic'
                            /\ SvcReturned
                       ELSE pop'.exc = "ValueError" /\ periph' = periph
                  [] id = 2 ->
                       /\ pop'.exc = "" /\ SvcStopped /\ pc' = lr' /\ ex' = ex
                       /\ running' = IF NvicRequested THEN running ELSE FALSE
                       /\ periph' = periph
                  [] id = 3 ->
                       /\ pop'.exc = "" /\ SvcStopped /\ pc' = lr' /\ ex' = ex
                       /\ running' = running /\ periph' = periph
                  [] id = 4 ->
                       /\ pop'.exc = "" /\ SvcStopped /\ ex' = ex
                       /\ periph' = <<>> /\ pc' = EntryPoint /\ lr' = ResetLR
                  [] id > 4 /\ id < SVC_PERIPH_BASE ->
                       pop'.exc = "RuntimeError: Unknown SVCID" /\ periph' = periph
                  [] id >= SVC_PERIPH_BASE ->
                       /\ periph' = periph
                       /\ IF ~DictHas(periph, p)
                          THEN /\ pop'.exc = "RuntimeError: Unknown peripheral ID"
                               /\ pop'.called = <<>>
                          ELSE /\ pop'.called = <<p, f, DictGet(periph, p)>>
                               /\ pop'.exc = "" => SvcReturned
                               /\ pop'.exc = "" /\ DictGet(periph, p) = "FastUART" /\ f = 0
                                     => uart'.event /\ uart'.txn = uart.txn + 1]_vars

\* an svcid with a second byte above the pid has called svc(0) of the GPIO
\* registered under pid 3, and the guest runs on
C38_Witness ==
    /\ pop.op = "svc"
    /\ pop.svcid = 2 * SVC_PERIPH_BASE + 3 * 65536
    /\ pop.called = <<GpioPid, 0, "GPIO">>
    /\ pop.exc = ""
    /\ dloop = "emu"

\* ------------------------------------------------------------------------
\* a call of DeviceTest.dn or DeviceTest.join that has raised nothing
DtDnStep == lnsop' # lnsop /\ lnsop'.op \in {"dn", "join"} /\ lnsop'.res = ""

\* C40: the downlink of DeviceTest.dn begins at uplink.xend + rxdelay + toff,
\* rxdelay being the rx1delay argument if it is not zero, else the session's
\* rx1delay, and one more for rx2; for the Join-Accept of DeviceTest.join
\* rx1delay defaults to JaccRxDelay, and frequency and rps are those of the
\* region (rx1droff 0 in RX1, RX2DR and RX2Freq in RX2), not the values the
\* new session has
C40_DnTiming ==
    [][DtDnStep =>
         LET o    == lnsop'
             up   == msgs[o.up]
             d    == msgs'[Len(msgs')]
             ses  == sess'[o.s]
             reg  == ses.region
             arg  == IF o.join /\ o.rx1delay = None THEN JaccRxDelay ELSE o.rx1delay
             rxdelay == (IF arg # 0 THEN arg ELSE ses.rx1delay) + (IF o.rx2 THEN 1 ELSE 0)
             updr == ToDr(reg, GetSf(up.rps), GetBw(up.rps))
             dr   == IF o.rx2 THEN (IF o.join THEN RegRX2DR(reg) ELSE ses.rx2dr)
                     ELSE RegDnDr(reg, updr, IF o.join THEN 0 ELSE ses.rx1droff)
         IN  /\ Len(msgs') = Len(msgs) + 1
             /\ xm'[0] = Len(msgs')
             /\ d.src = 0
             /\ d.xbeg = up.xend + rxdelay * UnitsPerSec + o.toff
             /\ \E i \in 1..Len(jobs') :
                    /\ job'[jobs'[i]].fn = "txstart"
                    /\ ~job'[jobs'[i]].cancelled
                    /\ job'[jobs'[i]].ticks = Time2Ticks(epoch, d.xbeg)
             /\ d.freq = IF o.freq # None THEN o.freq
                         ELSE IF ~o.rx2 THEN RegDnFreq(reg, up.freq)
                         ELSE IF o.join THEN RegRX2Freq(reg) ELSE ses.rx2freq
             /\ <<GetSf(d.rps), GetBw(d.rps)>> = reg.DRs[dr + 1]
             /\ IsIqInv(d.rps)]_vars

\* a Join-Accept has been scheduled for RX2 with the default delay, for a
\* session that has an rx1delay of 2 and an rx2dr other than the region's
C40_Witness ==
    /\ lnsop.op = "join" /\ lnsop.res = ""
    /\ lnsop.rx2 /\ lnsop.rx1delay = None
    /\ sess[lnsop.s].rx1delay = 2
    /\ sess[lnsop.s].rx2dr # RegRX2DR(sess[lnsop.s].region)
    /\ msgs[Len(msgs)].xbeg = msgs[lnsop.up].xend + (JaccRxDelay + 1) * UnitsPerSec

\* a data downlink has been scheduled for RX2 with the session's rx1delay
\* and rx2dr, and one for RX1 with the rx1delay of the call
C40_DnRx2Seen ==
    /\ lnsop.op = "dn" /\ lnsop.res = ""
    /\ lnsop.rx2 /\ lnsop.rx1delay = 0
    /\ sess[lnsop.s].rx1delay = 2
    /\ sess[lnsop.s].rx2dr = 3
    /\ GetSf(msgs[Len(msgs)].rps) = 9

C40_DnRx1Seen ==
    /\ lnsop.op = "dn" /\ lnsop.res = ""
    /\ ~lnsop.rx2 /\ lnsop.rx1delay = 1
    /\ sess[lnsop.s].rx1delay = 2
    /\ sess[lnsop.s].rx1droff = 1
    /\ lnsop.reg = "US915"

====
